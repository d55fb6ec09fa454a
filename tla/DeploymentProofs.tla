-------------------------- MODULE DeploymentProofs --------------------------
(***************************************************************************)
(* Proofs about Deployment, for every set of nodes, every inventory with a *)
(* controller, every model that has what its components depend on, all     *)
(* schedules and any number of commands that fail.                         *)
(*                                                                         *)
(* The tables say what the steps of each task are and which tasks they     *)
(* name.  The general part says what a task that is past a step can rely   *)
(* on, the parts after it what each task brings, and that each call finds  *)
(* what it reads and needs.  The last part is about the passwords it       *)
(* hands out (KeyManager).                                                 *)
(***************************************************************************)
EXTENDS Deployment, KeyManager, FiniteSetTheorems, TLAPS

-----------------------------------------------------------------------------
(* The invariant.                                                          *)

Controllers == {n \in Node : group[n] \in {"controller", "aio"}}
Workers == {n \in Node : group[n] \in {"worker", "aio"}}

\* The component a task belongs to.
Owner(t) == CHOOSE c \in Component : t \in TasksOf[c]

CaseInv == \E c \in Cases : group = c.group /\ model = c.model /\ slow = c.slow /\ breaks \in 0 .. c.breaks

\* What was composed for a component is there.
Spread(c) ==
  /\ c.users \subseteq users /\ c.schemas \subseteq schemas
  /\ \A n \in Node :
       /\ \A x \in c.keys : At(n) \cap x[1] # {} => x[2] \in keys[n]
       /\ \A x \in c.peers : At(n) \cap x[1] # {} => x[2] \in peers[n]

ComposeInv ==
  /\ main \in {"compose", "wait", "ok", "failed"}
  /\ composed \in 0 .. 16
  /\ main # "compose" => composed = 16
  /\ \A i \in 1 .. composed : Spread(Composition(i))
  /\ \A n \in Node : sent[n] = IF main = "compose" THEN NotSent ELSE [keys |-> keys[n], peers |-> peers[n]]

TaskInv ==
  /\ pc \in [Task -> Nat] /\ \A t \in Task : pc[t] # 0 => pc[t] \in 1 .. Len(Body(t)) \cup {End}
  /\ failed \subseteq {t \in Task : pc[t] # 0 /\ pc[t] # End}
  /\ main = "compose" => \A t \in Task : pc[t] = 0
  /\ main # "compose" => \A t \in Goals : pc[t] # 0
  /\ main = "ok" => \A t \in Goals : pc[t] = End
  /\ \A t \in Task : pc[t] # 0 => Owner(t) \in model

\* The calls cs were made on some choice of nodes.
Made(cs) == \E n \in Picks(cs) : \A j \in DOMAIN cs : ~cs[j].quiet => Effect(cs[j], n) \subseteq world

\* What a step is there for has happened.
Happened(s) ==
  /\ s.op = "want" => \A u \in s.tasks : pc[u] = End
  /\ s.op = "calls" => Made(s.calls)

PassedInv ==
  \A t \in Task : \A i \in 1 .. Len(Body(t)) : \A s \in {Body(t)[i]} : i < pc[t] => Happened(s)

\* Tasks that do not wait themselves for what they need are started late enough.
StartInv ==
  /\ pc["setup_mgr"] # 0 => pc["ceph_mon"] = End
  /\ pc["key_glance"] # 0 => pc["glance_steps"] > 4
  /\ pc["key_for_cinder_nova"] # 0 => pc["cinder_steps"] # 0

IInv ==
  CaseInv /\ ComposeInv /\ TaskInv /\ PassedInv /\ StartInv /\ ContentCanBeMade

-----------------------------------------------------------------------------
(* Tables: tasks, components and nodes.                                    *)

LEMMA TaskNames ==
  Task = {"selinux", "hostname", "haproxy_steps", "memcached_steps", "mariadb_steps", "rabbit_steps", "osclient_steps",
          "keystone_fernet", "cfg_httpd", "keystone_db", "cfg_keystone_steps", "keystone_endpoints", "keystone_users",
          "keystone_ready", "ceph_steps", "ceph_mon", "handle_osds", "handle_pools", "setup_mgr", "key_glance",
          "key_for_cinder_nova", "glance_steps", "cinder_steps", "swift_steps", "net_config", "neutron_steps", "libvirt",
          "have_content", "placement_steps", "nova_steps", "network_id", "nova_flavors", "tempest_steps"}
  BY DEF Task, TasksOf, Component, Services

LEMMA OwnerOf == \A c \in Component : \A t \in TasksOf[c] : Owner(t) = c
  BY DEF Owner, TasksOf, Component, Services

\* The final task of a component is one of its tasks.
LEMMA FinalTasks ==
  ASSUME NEW c \in Component
  PROVE  FinalTask[c] \in Task /\ Owner(FinalTask[c]) = c
<1>1. FinalTask[c] \in TasksOf[c]
  BY DEF FinalTask, TasksOf, Component, Services
<1> QED
  BY <1>1, OwnerOf DEF Task

LEMMA OwnerTable ==
  /\ Owner("haproxy_steps") = "haproxy" /\ Owner("selinux") = "haproxy"
  /\ Owner("memcached_steps") = "memcached" /\ Owner("mariadb_steps") = "mariadb"
  /\ Owner("rabbit_steps") = "rabbitmq" /\ Owner("osclient_steps") = "osclient"
  /\ \A t \in {"keystone_ready", "keystone_users", "keystone_endpoints", "cfg_keystone_steps", "keystone_db", "cfg_httpd",
               "keystone_fernet"} : Owner(t) = "keystone"
  /\ \A t \in {"ceph_steps", "ceph_mon", "hostname", "handle_osds", "handle_pools", "setup_mgr", "key_glance",
               "key_for_cinder_nova"} : Owner(t) = "ceph"
  /\ Owner("glance_steps") = "glance" /\ Owner("cinder_steps") = "cinder" /\ Owner("swift_steps") = "swift"
  /\ Owner("libvirt") = "libvirt" /\ Owner("neutron_steps") = "neutron" /\ Owner("net_config") = "neutron"
  /\ Owner("have_content") = "novnc" /\ Owner("placement_steps") = "placement" /\ Owner("nova_steps") = "nova"
  /\ \A t \in {"tempest_steps", "network_id", "nova_flavors"} : Owner(t) = "tempest"
<1>1. \A t \in TasksOf["haproxy"] : Owner(t) = "haproxy"
  BY OwnerOf DEF Component, Services
<1>2. \A t \in TasksOf["keystone"] : Owner(t) = "keystone"
  BY OwnerOf DEF Component, Services
<1>3. \A t \in TasksOf["ceph"] : Owner(t) = "ceph"
  BY OwnerOf DEF Component, Services
<1>4. \A t \in TasksOf["neutron"] : Owner(t) = "neutron"
  BY OwnerOf DEF Component, Services
<1>5. \A t \in TasksOf["tempest"] : Owner(t) = "tempest"
  BY OwnerOf DEF Component, Services
<1>6. \A c \in Component : Owner(FinalTask[c]) = c
  BY FinalTasks
<1>7. /\ Owner("memcached_steps") = "memcached" /\ Owner("mariadb_steps") = "mariadb"
      /\ Owner("rabbit_steps") = "rabbitmq" /\ Owner("osclient_steps") = "osclient"
      /\ Owner("glance_steps") = "glance" /\ Owner("cinder_steps") = "cinder" /\ Owner("swift_steps") = "swift"
      /\ Owner("libvirt") = "libvirt" /\ Owner("have_content") = "novnc"
      /\ Owner("placement_steps") = "placement" /\ Owner("nova_steps") = "nova"
  BY <1>6 DEF FinalTask, Component, Services
<1> QED
  BY <1>1, <1>2, <1>3, <1>4, <1>5, <1>7 DEF TasksOf, Component, Services

LEMMA ComponentNames ==
  Component = {"haproxy", "memcached", "mariadb", "rabbitmq", "osclient", "novnc", "tempest", "libvirt", "keystone", "ceph",
               "glance", "cinder", "swift", "neutron", "placement", "nova"}
  BY DEF Component, Services

LEMMA DependencyTable ==
  /\ Dependencies["mariadb"] = {"haproxy"}
  /\ Dependencies["keystone"] = {"haproxy", "mariadb", "memcached"}
  /\ \A c \in {"glance", "cinder"} :
       Dependencies[c] = {"haproxy", "mariadb", "memcached", "rabbitmq", "keystone", "ceph"}
  /\ Dependencies["swift"] = {"haproxy", "keystone", "memcached"}
  /\ Dependencies["neutron"] = {"haproxy", "mariadb", "memcached", "osclient", "rabbitmq", "keystone"}
  /\ Dependencies["placement"] = {"mariadb", "keystone"}
  /\ Dependencies["nova"] = {"haproxy", "mariadb", "memcached", "rabbitmq", "keystone", "novnc", "libvirt", "neutron",
                             "placement", "ceph"}
  /\ Dependencies["tempest"] = {"keystone", "osclient", "neutron", "nova", "glance", "swift", "cinder"}
  BY DEF Dependencies, Component, Services

\* What the assumptions say of the case at hand.
LEMMA Models ==
  ASSUME CaseInv
  PROVE  /\ group \in [Node -> Group] /\ Controllers # {} /\ Controllers \subseteq Node
         /\ model \subseteq Component /\ \A c \in model : Dependencies[c] \subseteq model
         /\ slow \subseteq Task /\ breaks \in Nat
  BY InventoriesAssumption, ModelsAssumption, BoundsAssumption DEF CaseInv, Controllers

\* Every list of services is on the controllers, the workers or both.
LEMMA HostsAre ==
  ASSUME group \in [Node -> Group], NEW S
  PROVE  /\ S \subseteq ControllerServices \ WorkerServices /\ S # {} => Hosts(S) = Controllers
         /\ S \subseteq WorkerServices \ ControllerServices /\ S # {} => Hosts(S) = Workers
         /\ S \cap ControllerServices # {} /\ S \cap WorkerServices # {} => Hosts(S) = Node
         /\ S \in {{"tempest"}, {"novnc"}} => Hosts(S) = Controllers
         /\ S = {"pythonopenstackclient"} => Hosts(S) = Node
  BY DEF Hosts, At, ControllerServices, WorkerServices, Controllers, Workers, Group

LEMMA HostsTable ==
  ASSUME group \in [Node -> Group]
  PROVE  /\ Hosts({"haproxy"}) = Controllers /\ Hosts({"memcached"}) = Controllers
         /\ Hosts({"mariadb"}) = Controllers /\ Hosts({"rabbit"}) = Controllers
         /\ Hosts({"keystone"}) = Controllers /\ Hosts({"ceph-mon"}) = Controllers
         /\ Hosts({"ceph-osd"}) = Controllers /\ Hosts({"ceph-mgr"}) = Controllers
         /\ Hosts({"glance-api"}) = Controllers /\ Hosts({"cinder-api"}) = Controllers
         /\ Hosts({"swift-proxy"}) = Controllers /\ Hosts({"neutron-server"}) = Controllers
         /\ Hosts({"neutron-l3-agent"}) = Controllers
         /\ Hosts({"placement-api"}) = Controllers /\ Hosts({"nova-api"}) = Controllers
         /\ Hosts({"tempest"}) = Controllers /\ Hosts({"novnc"}) = Controllers
         /\ Hosts({"libvirtd"}) = Workers /\ Hosts({"pythonopenstackclient"}) = Node
         /\ \A c \in {"haproxy", "memcached", "mariadb", "rabbitmq", "keystone", "ceph", "glance", "cinder", "swift", "placement"} :
              Hosts(Services[c]) = Controllers
         /\ Hosts(Services["libvirt"]) = Workers
         /\ Hosts(Services["neutron"]) = Node /\ Hosts(Services["nova"]) = Node
         /\ Hosts({"nova-compute"}) = Workers /\ Hosts({"nova-compute", "libvirtd"}) = Workers
         /\ Hosts({"cinder-volume", "nova-compute"}) = Node
         /\ Hosts({"nova-api", "nova-compute", "nova-scheduler", "nova-conductor"}) = Node
         /\ Hosts(Services.ceph \cup {"cinder-volume", "nova-compute"}) = Node
         /\ Hosts({"swift-object", "swift-container", "swift-account"}) = Controllers
<1>1. /\ Hosts({"haproxy"}) = Controllers /\ Hosts({"memcached"}) = Controllers
      /\ Hosts({"mariadb"}) = Controllers /\ Hosts({"rabbit"}) = Controllers
      /\ Hosts({"keystone"}) = Controllers /\ Hosts({"ceph-mon"}) = Controllers
      /\ Hosts({"ceph-osd"}) = Controllers /\ Hosts({"ceph-mgr"}) = Controllers
      /\ Hosts({"glance-api"}) = Controllers /\ Hosts({"cinder-api"}) = Controllers
      /\ Hosts({"swift-proxy"}) = Controllers /\ Hosts({"neutron-server"}) = Controllers
      /\ Hosts({"neutron-l3-agent"}) = Controllers
      /\ Hosts({"placement-api"}) = Controllers /\ Hosts({"nova-api"}) = Controllers
  BY HostsAre DEF ControllerServices, WorkerServices
<1>2. /\ Hosts({"tempest"}) = Controllers /\ Hosts({"novnc"}) = Controllers
      /\ Hosts({"libvirtd"}) = Workers /\ Hosts({"pythonopenstackclient"}) = Node
  BY HostsAre DEF ControllerServices, WorkerServices
<1>3. \A c \in {"haproxy", "memcached", "mariadb", "rabbitmq", "keystone", "ceph", "glance", "cinder", "swift", "placement"} :
        Hosts(Services[c]) = Controllers
  BY HostsAre DEF ControllerServices, WorkerServices, Services
<1>4. /\ Hosts(Services["libvirt"]) = Workers
      /\ Hosts(Services["neutron"]) = Node /\ Hosts(Services["nova"]) = Node
  BY HostsAre DEF ControllerServices, WorkerServices, Services
<1>5. /\ Hosts({"nova-compute"}) = Workers /\ Hosts({"nova-compute", "libvirtd"}) = Workers
      /\ Hosts({"cinder-volume", "nova-compute"}) = Node
      /\ Hosts({"nova-api", "nova-compute", "nova-scheduler", "nova-conductor"}) = Node
      /\ Hosts(Services.ceph \cup {"cinder-volume", "nova-compute"}) = Node
      /\ Hosts({"swift-object", "swift-container", "swift-account"}) = Controllers
  BY HostsAre DEF ControllerServices, WorkerServices, Services
<1> QED
  BY <1>1, <1>2, <1>3, <1>4, <1>5

-----------------------------------------------------------------------------
(* Tables: the steps of the tasks.                                         *)

\* Steps are of three kinds, the tasks they name belong to the component or to
\* one it depends on, and the last three lines say who starts the tasks that do
\* not wait for all they need.
BodyOK(t) ==
  /\ Len(Body(t)) \in 1 .. 9 /\ DOMAIN Body(t) = 1 .. Len(Body(t))
  /\ \A i \in 1 .. Len(Body(t)) :
       LET s == Body(t)[i] IN
         \/ /\ s.op \in {"need", "want"} /\ s.tasks \subseteq Task
            /\ \A u \in s.tasks : Owner(u) = Owner(t) \/ Owner(u) \in Dependencies[Owner(t)]
            /\ "setup_mgr" \in s.tasks => t = "ceph_steps" /\ i > 2
            /\ "key_glance" \in s.tasks => t = "glance_steps" /\ i = 5
            /\ "key_for_cinder_nova" \in s.tasks => t = "cinder_steps"
         \/ /\ s.op = "calls" /\ Len(s.calls) \in 1 .. 6 /\ DOMAIN s.calls = 1 .. Len(s.calls)

\* Only the exit status of do_ensure_test_images passes unseen; these are all the others.
LEMMA NotQuiet ==
  /\ ~do_selinux_permissive.quiet /\ ~do_hostname.quiet /\ ~do_proxy.quiet /\ ~do_memcached_service_start.quiet
  /\ ~do_mariadb_cfg.quiet /\ ~do_mariadb_galera_seed.quiet /\ ~do_mariadb.quiet /\ ~do_create_clustr_user.quiet
  /\ ~do_mariadb_query_state.quiet /\ ~do_rabbitmq_test_in.quiet /\ ~do_rabbitmq_reset_join.quiet
  /\ ~do_handle_schemas.quiet /\ ~do_rabbit_start.quiet /\ ~do_rabbit_addusers.quiet /\ ~do_pip.quiet
  /\ ~do_fernet_init.quiet /\ ~do_fetch_fernet_as_tar.quiet /\ ~distribute_for_command.quiet /\ ~do_httpd_restart.quiet
  /\ ~do_keystone_init.quiet /\ ~do_keystone_endpoint_sync.quiet /\ ~do_keystone_user_sync.quiet
  /\ ~create_ceph_state_dirs.quiet /\ ~set_mon_bootsrapped.quiet /\ ~do_network_id.quiet
  /\ ~do_place_ceph_conf.quiet /\ ~initial_keyring.quiet /\ ~do_boostrap_mon.quiet
  /\ ~do_ceph_deploy_all_in_one_demo.quiet /\ ~do_ensure_pools.quiet /\ ~fetch_key.quiet
  /\ ~do_setup_key_and_mgr_start.quiet /\ ~do_glance_keyring.quiet /\ ~do_cinder_nova_keyring.quiet
  /\ ~do_register_ceph_libvirt.quiet /\ ~do_swift_deploy_demo_local.quiet /\ ~do_swift_service_start.quiet
  /\ ~do_dummy_netconfig.quiet /\ ~do_dummy_public_net.quiet /\ ~do_libvirt.quiet /\ ~do_have_content.quiet
  /\ ~do_cell_reg.quiet /\ ~do_ensure_flavors.quiet /\ ~do_fetch_image.quiet /\ ~do_tempest_cfg.quiet
  /\ \A c, at, s : ~DbSync(c, at, s).quiet /\ ~[DbSync(c, at, s) EXCEPT !.gives = {}].quiet
  /\ \A c : ~StartServices(c).quiet
  BY DEF All, One, Others, DbSync, StartServices, ToKeystone, do_selinux_permissive, do_hostname, do_proxy,
     do_memcached_service_start, do_mariadb_cfg, do_mariadb_galera_seed, do_mariadb, do_create_clustr_user,
     do_handle_schemas, do_rabbit_start, do_rabbit_addusers, do_pip, do_fernet_init, do_fetch_fernet_as_tar,
     distribute_for_command, do_httpd_restart, do_keystone_init, do_keystone_endpoint_sync, do_keystone_user_sync,
     do_place_ceph_conf, initial_keyring, do_boostrap_mon, do_ceph_deploy_all_in_one_demo, do_ensure_pools, fetch_key,
     do_setup_key_and_mgr_start, do_glance_keyring, do_cinder_nova_keyring, do_register_ceph_libvirt,
     do_swift_deploy_demo_local, do_swift_service_start, do_dummy_netconfig, do_dummy_public_net, do_libvirt,
     do_have_content, do_cell_reg, do_ensure_flavors, do_fetch_image, do_tempest_cfg, create_ceph_state_dirs,
     set_mon_bootsrapped, do_network_id, do_mariadb_query_state, do_rabbitmq_test_in, do_rabbitmq_reset_join

\* The table: what BodyOK says of a task holds of all.
LEMMA Bodies == \A t \in Task : BodyOK(t)
<1>1. BodyOK("selinux")
  BY TaskNames, OwnerTable, DependencyTable, SMTT(20) DEF BodyOK, Body, Selinux, Need, Want, Calls
<1>2. BodyOK("hostname")
  BY TaskNames, OwnerTable, DependencyTable, SMTT(20) DEF BodyOK, Body, Hostname, Need, Want, Calls
<1>3. BodyOK("haproxy_steps")
  BY TaskNames, OwnerTable, DependencyTable, SMTT(20) DEF BodyOK, Body, HaproxySteps, Need, Want, Calls
<1>4. BodyOK("memcached_steps")
  BY TaskNames, OwnerTable, DependencyTable, SMTT(20) DEF BodyOK, Body, MemcachedSteps, Need, Want, Calls
<1>5. BodyOK("mariadb_steps")
  BY TaskNames, OwnerTable, DependencyTable, SMTT(20) DEF BodyOK, Body, MariadbSteps, Need, Want, Calls
<1>6. BodyOK("rabbit_steps")
  BY TaskNames, OwnerTable, DependencyTable, SMTT(20) DEF BodyOK, Body, RabbitSteps, Need, Want, Calls
<1>7. BodyOK("osclient_steps")
  BY TaskNames, OwnerTable, DependencyTable, SMTT(20) DEF BodyOK, Body, OsclientSteps, Need, Want, Calls
<1>8. BodyOK("keystone_fernet")
  BY TaskNames, OwnerTable, DependencyTable, SMTT(20) DEF BodyOK, Body, KeystoneFernet, Need, Want, Calls
<1>9. BodyOK("cfg_httpd")
  BY TaskNames, OwnerTable, DependencyTable, SMTT(20) DEF BodyOK, Body, CfgHttpd, Need, Want, Calls
<1>10. BodyOK("keystone_db")
  BY TaskNames, OwnerTable, DependencyTable, SMTT(20) DEF BodyOK, Body, KeystoneDb, Need, Want, Calls
<1>11. BodyOK("cfg_keystone_steps")
  BY TaskNames, OwnerTable, DependencyTable, SMTT(20) DEF BodyOK, Body, CfgKeystoneSteps, Need, Want, Calls
<1>12. BodyOK("keystone_endpoints")
  BY TaskNames, OwnerTable, DependencyTable, SMTT(20) DEF BodyOK, Body, KeystoneEndpoints, Need, Want, Calls
<1>13. BodyOK("keystone_users")
  BY TaskNames, OwnerTable, DependencyTable, SMTT(20) DEF BodyOK, Body, KeystoneUsers, Need, Want, Calls
<1>14. BodyOK("keystone_ready")
  BY TaskNames, OwnerTable, DependencyTable, SMTT(20) DEF BodyOK, Body, KeystoneReady, Need, Want, Calls
<1>15. BodyOK("ceph_steps")
  BY TaskNames, OwnerTable, DependencyTable, SMTT(20) DEF BodyOK, Body, CephSteps, Need, Want, Calls
<1>16. BodyOK("ceph_mon")
  BY TaskNames, OwnerTable, DependencyTable, SMTT(20) DEF BodyOK, Body, CephMon, Need, Want, Calls
<1>17. BodyOK("handle_osds")
  BY TaskNames, OwnerTable, DependencyTable, SMTT(20) DEF BodyOK, Body, HandleOsds, Need, Want, Calls
<1>18. BodyOK("handle_pools")
  BY TaskNames, OwnerTable, DependencyTable, SMTT(20) DEF BodyOK, Body, HandlePools, Need, Want, Calls
<1>19. BodyOK("setup_mgr")
  BY TaskNames, OwnerTable, DependencyTable, SMTT(20) DEF BodyOK, Body, SetupMgr, Need, Want, Calls
<1>20. BodyOK("key_glance")
  BY TaskNames, OwnerTable, DependencyTable, SMTT(20) DEF BodyOK, Body, KeyGlance, Need, Want, Calls
<1>21. BodyOK("key_for_cinder_nova")
  BY TaskNames, OwnerTable, DependencyTable, SMTT(20) DEF BodyOK, Body, KeyForCinderNova, Need, Want, Calls
<1>22. BodyOK("glance_steps")
  BY TaskNames, OwnerTable, DependencyTable, SMTT(20) DEF BodyOK, Body, GlanceSteps, Need, Want, Calls
<1>23. BodyOK("cinder_steps")
  BY TaskNames, OwnerTable, DependencyTable, SMTT(20) DEF BodyOK, Body, CinderSteps, Need, Want, Calls
<1>24. BodyOK("swift_steps")
  BY TaskNames, OwnerTable, DependencyTable, SMTT(20) DEF BodyOK, Body, SwiftSteps, Need, Want, Calls
<1>25. BodyOK("net_config")
  BY TaskNames, OwnerTable, DependencyTable, SMTT(20) DEF BodyOK, Body, NetConfig, Need, Want, Calls
<1>26. BodyOK("neutron_steps")
  BY TaskNames, OwnerTable, DependencyTable, SMTT(20) DEF BodyOK, Body, NeutronSteps, Need, Want, Calls
<1>27. BodyOK("libvirt")
  BY TaskNames, OwnerTable, DependencyTable, SMTT(20) DEF BodyOK, Body, Libvirt, Need, Want, Calls
<1>28. BodyOK("have_content")
  BY TaskNames, OwnerTable, DependencyTable, SMTT(20) DEF BodyOK, Body, HaveContent, Need, Want, Calls
<1>29. BodyOK("placement_steps")
  BY TaskNames, OwnerTable, DependencyTable, SMTT(20) DEF BodyOK, Body, PlacementSteps, Need, Want, Calls
<1>30. BodyOK("nova_steps")
  BY TaskNames, OwnerTable, DependencyTable, SMTT(200) DEF BodyOK, Body, NovaSteps, Need, Want, Calls
<1>31. BodyOK("network_id")
  BY TaskNames, OwnerTable, DependencyTable, SMTT(20) DEF BodyOK, Body, NetworkId, Need, Want, Calls
<1>32. BodyOK("nova_flavors")
  BY TaskNames, OwnerTable, DependencyTable, SMTT(20) DEF BodyOK, Body, NovaFlavors, Need, Want, Calls
<1>33. BodyOK("tempest_steps")
  BY TaskNames, OwnerTable, DependencyTable, SMTT(20) DEF BodyOK, Body, TempestSteps, Need, Want, Calls
<1> QED
  BY <1>1, <1>2, <1>3, <1>4, <1>5, <1>6, <1>7, <1>8, <1>9, <1>10, <1>11, <1>12, <1>13, <1>14, <1>15, <1>16, <1>17,
     <1>18, <1>19, <1>20, <1>21, <1>22, <1>23, <1>24, <1>25, <1>26, <1>27, <1>28, <1>29, <1>30, <1>31, <1>32, <1>33,
     TaskNames

\* A call whose failure passes unseen is a step of its own.
LoneQuiet(t) ==
  \A i \in 1 .. Len(Body(t)) : Body(t)[i].op = "calls" =>
    \A j \in DOMAIN Body(t)[i].calls : Body(t)[i].calls[j].quiet => Len(Body(t)[i].calls) = 1

\* One step has such a call, the second calls of tempest_steps.
LEMMA Quiet == \A t \in Task : LoneQuiet(t)
<1>1. LoneQuiet("selinux")
  BY NotQuiet DEF LoneQuiet, Body, Selinux, Need, Want, Calls
<1>2. LoneQuiet("hostname")
  BY NotQuiet DEF LoneQuiet, Body, Hostname, Need, Want, Calls
<1>3. LoneQuiet("haproxy_steps")
  BY NotQuiet DEF LoneQuiet, Body, HaproxySteps, Need, Want, Calls
<1>4. LoneQuiet("memcached_steps")
  BY NotQuiet DEF LoneQuiet, Body, MemcachedSteps, Need, Want, Calls
<1>5. LoneQuiet("mariadb_steps")
  BY NotQuiet DEF LoneQuiet, Body, MariadbSteps, Need, Want, Calls
<1>6. LoneQuiet("rabbit_steps")
  BY NotQuiet DEF LoneQuiet, Body, RabbitSteps, Need, Want, Calls
<1>7. LoneQuiet("osclient_steps")
  BY NotQuiet DEF LoneQuiet, Body, OsclientSteps, Need, Want, Calls
<1>8. LoneQuiet("keystone_fernet")
  BY NotQuiet DEF LoneQuiet, Body, KeystoneFernet, Need, Want, Calls
<1>9. LoneQuiet("cfg_httpd")
  BY NotQuiet DEF LoneQuiet, Body, CfgHttpd, Need, Want, Calls
<1>10. LoneQuiet("keystone_db")
  BY NotQuiet DEF LoneQuiet, Body, KeystoneDb, Need, Want, Calls
<1>11. LoneQuiet("cfg_keystone_steps")
  BY NotQuiet DEF LoneQuiet, Body, CfgKeystoneSteps, Need, Want, Calls
<1>12. LoneQuiet("keystone_endpoints")
  BY NotQuiet DEF LoneQuiet, Body, KeystoneEndpoints, Need, Want, Calls
<1>13. LoneQuiet("keystone_users")
  BY NotQuiet DEF LoneQuiet, Body, KeystoneUsers, Need, Want, Calls
<1>14. LoneQuiet("keystone_ready")
  BY NotQuiet DEF LoneQuiet, Body, KeystoneReady, Need, Want, Calls
<1>15. LoneQuiet("ceph_steps")
  BY NotQuiet DEF LoneQuiet, Body, CephSteps, Need, Want, Calls
<1>16. LoneQuiet("ceph_mon")
  BY NotQuiet DEF LoneQuiet, Body, CephMon, Need, Want, Calls
<1>17. LoneQuiet("handle_osds")
  BY NotQuiet DEF LoneQuiet, Body, HandleOsds, Need, Want, Calls
<1>18. LoneQuiet("handle_pools")
  BY NotQuiet DEF LoneQuiet, Body, HandlePools, Need, Want, Calls
<1>19. LoneQuiet("setup_mgr")
  BY NotQuiet DEF LoneQuiet, Body, SetupMgr, Need, Want, Calls
<1>20. LoneQuiet("key_glance")
  BY NotQuiet DEF LoneQuiet, Body, KeyGlance, Need, Want, Calls
<1>21. LoneQuiet("key_for_cinder_nova")
  BY NotQuiet DEF LoneQuiet, Body, KeyForCinderNova, Need, Want, Calls
<1>22. LoneQuiet("glance_steps")
  BY NotQuiet DEF LoneQuiet, Body, GlanceSteps, Need, Want, Calls
<1>23. LoneQuiet("cinder_steps")
  BY NotQuiet DEF LoneQuiet, Body, CinderSteps, Need, Want, Calls
<1>24. LoneQuiet("swift_steps")
  BY NotQuiet DEF LoneQuiet, Body, SwiftSteps, Need, Want, Calls
<1>25. LoneQuiet("net_config")
  BY NotQuiet DEF LoneQuiet, Body, NetConfig, Need, Want, Calls
<1>26. LoneQuiet("neutron_steps")
  BY NotQuiet DEF LoneQuiet, Body, NeutronSteps, Need, Want, Calls
<1>27. LoneQuiet("libvirt")
  BY NotQuiet DEF LoneQuiet, Body, Libvirt, Need, Want, Calls
<1>28. LoneQuiet("have_content")
  BY NotQuiet DEF LoneQuiet, Body, HaveContent, Need, Want, Calls
<1>29. LoneQuiet("placement_steps")
  BY NotQuiet DEF LoneQuiet, Body, PlacementSteps, Need, Want, Calls
<1>30. LoneQuiet("nova_steps")
  <2> DEFINE a == [DbSync("nova", "nova-api", Schema("nova_api", "nova")) EXCEPT !.gives = {}]
             b == [DbSync("nova", "nova-api", Schema("nova_cell0", "nova")) EXCEPT !.gives = {}]
             c == DbSync("nova", "nova-api", Schema("nova", "nova"))
  <2>1. ~a.quiet /\ ~b.quiet /\ ~c.quiet
    BY DEF DbSync, One, All
  <2>2. NovaSteps = <<Want({"mariadb_steps"}), Calls(<<a, b, c>>), Want({"rabbit_steps", "have_content"}),
                      Calls(<<StartServices("nova")>>), Want({"keystone_ready", "libvirt"}), Calls(<<do_cell_reg>>)>>
    BY DEF NovaSteps
  <2> HIDE DEF a, b, c
  <2> QED
    BY <2>1, <2>2, NotQuiet DEF LoneQuiet, Body, Want, Calls
<1>31. LoneQuiet("network_id")
  BY NotQuiet DEF LoneQuiet, Body, NetworkId, Need, Want, Calls
<1>32. LoneQuiet("nova_flavors")
  BY NotQuiet DEF LoneQuiet, Body, NovaFlavors, Need, Want, Calls
<1>33. LoneQuiet("tempest_steps")
  BY NotQuiet DEF LoneQuiet, Body, TempestSteps, Need, Want, Calls
<1> QED
  BY <1>1, <1>2, <1>3, <1>4, <1>5, <1>6, <1>7, <1>8, <1>9, <1>10, <1>11, <1>12, <1>13, <1>14, <1>15, <1>16, <1>17,
     <1>18, <1>19, <1>20, <1>21, <1>22, <1>23, <1>24, <1>25, <1>26, <1>27, <1>28, <1>29, <1>30, <1>31, <1>32, <1>33,
     TaskNames

\* The steps depend on the inventory, the users and the schemas only.
LEMMA BodiesStay ==
  ASSUME group' = group, users' = users, schemas' = schemas
  PROVE  \A t \in Task : Body(t)' = Body(t)
<1>0. \A S : Hosts(S)' = Hosts(S)
  BY DEF Hosts, At, ControllerServices, WorkerServices
<1>1. Body("selinux")' = Body("selinux")
  BY <1>0 DEF Body, Selinux, Need, Want, Calls, do_selinux_permissive, All
<1>2. Body("hostname")' = Body("hostname")
  BY <1>0 DEF Body, Hostname, Need, Want, Calls, do_hostname, All
<1>3. Body("haproxy_steps")' = Body("haproxy_steps")
  BY <1>0 DEF Body, HaproxySteps, Need, Want, Calls, do_proxy, All
<1>4. Body("memcached_steps")' = Body("memcached_steps")
  BY <1>0 DEF Body, MemcachedSteps, Need, Want, Calls, do_memcached_service_start, All
<1>5. Body("mariadb_steps")' = Body("mariadb_steps")
  BY <1>0 DEF Body, MariadbSteps, Need, Want, Calls, do_mariadb_cfg, do_mariadb_galera_seed, do_mariadb,
     do_mariadb_query_state, do_create_clustr_user, do_handle_schemas, One, All
<1>6. Body("rabbit_steps")' = Body("rabbit_steps")
  BY <1>0 DEF Body, RabbitSteps, Need, Want, Calls, do_rabbit_start, do_rabbitmq_test_in,
     do_rabbitmq_reset_join, do_rabbit_addusers, One, All
<1>7. Body("osclient_steps")' = Body("osclient_steps")
  BY <1>0 DEF Body, OsclientSteps, Need, Want, Calls, do_pip, All
<1>8. Body("keystone_fernet")' = Body("keystone_fernet")
  BY <1>0 DEF Body, KeystoneFernet, Need, Want, Calls, do_fernet_init, do_fetch_fernet_as_tar, distribute_for_command,
     One, Others, All
<1>9. Body("cfg_httpd")' = Body("cfg_httpd")
  BY <1>0 DEF Body, CfgHttpd, Need, Want, Calls, do_httpd_restart, All
<1>10. Body("keystone_db")' = Body("keystone_db")
  BY <1>0 DEF Body, KeystoneDb, Need, Want, Calls, DbSync, One, All
<1>11. Body("cfg_keystone_steps")' = Body("cfg_keystone_steps")
  BY <1>0 DEF Body, CfgKeystoneSteps, Need, Want, Calls, do_keystone_init, One, All
<1>12. Body("keystone_endpoints")' = Body("keystone_endpoints")
  BY <1>0 DEF Body, KeystoneEndpoints, Need, Want, Calls, ToKeystone, do_keystone_endpoint_sync, One, All
<1>13. Body("keystone_users")' = Body("keystone_users")
  BY <1>0 DEF Body, KeystoneUsers, Need, Want, Calls, ToKeystone, do_keystone_user_sync, One, All
<1>14. Body("keystone_ready")' = Body("keystone_ready")
  BY <1>0 DEF Body, KeystoneReady, Need, Want, Calls
<1>15. Body("ceph_steps")' = Body("ceph_steps")
  BY <1>0 DEF Body, CephSteps, Need, Want, Calls, create_ceph_state_dirs, All
<1>16. Body("ceph_mon")' = Body("ceph_mon")
  BY <1>0 DEF Body, CephMon, Need, Want, Calls, do_place_ceph_conf, initial_keyring, do_boostrap_mon,
     set_mon_bootsrapped, One, All
<1>17. Body("handle_osds")' = Body("handle_osds")
  BY <1>0 DEF Body, HandleOsds, Need, Want, Calls, do_ceph_deploy_all_in_one_demo, All
<1>18. Body("handle_pools")' = Body("handle_pools")
  BY <1>0 DEF Body, HandlePools, Need, Want, Calls, do_ensure_pools, One, All
<1>19. Body("setup_mgr")' = Body("setup_mgr")
  BY <1>0 DEF Body, SetupMgr, Need, Want, Calls, fetch_key, do_setup_key_and_mgr_start, One, All
<1>20. Body("key_glance")' = Body("key_glance")
  BY <1>0 DEF Body, KeyGlance, Need, Want, Calls, fetch_key, do_glance_keyring, One, All
<1>21. Body("key_for_cinder_nova")' = Body("key_for_cinder_nova")
  BY <1>0 DEF Body, KeyForCinderNova, Need, Want, Calls, fetch_key, do_cinder_nova_keyring, do_register_ceph_libvirt,
     One, All
<1>22. Body("glance_steps")' = Body("glance_steps")
  BY <1>0 DEF Body, GlanceSteps, Need, Want, Calls, DbSync, StartServices, One, All
<1>23. Body("cinder_steps")' = Body("cinder_steps")
  BY <1>0 DEF Body, CinderSteps, Need, Want, Calls, DbSync, StartServices, One, All
<1>24. Body("swift_steps")' = Body("swift_steps")
  BY <1>0 DEF Body, SwiftSteps, Need, Want, Calls, StartServices, do_swift_deploy_demo_local, do_swift_service_start,
     All
<1>25. Body("net_config")' = Body("net_config")
  BY <1>0 DEF Body, NetConfig, Need, Want, Calls, do_dummy_netconfig, All
<1>26. Body("neutron_steps")' = Body("neutron_steps")
  BY <1>0 DEF Body, NeutronSteps, Need, Want, Calls, DbSync, StartServices, do_dummy_public_net, One, All
<1>27. Body("libvirt")' = Body("libvirt")
  BY <1>0 DEF Body, Libvirt, Need, Want, Calls, do_libvirt, All
<1>28. Body("have_content")' = Body("have_content")
  BY <1>0 DEF Body, HaveContent, Need, Want, Calls, do_have_content, All
<1>29. Body("placement_steps")' = Body("placement_steps")
  BY <1>0 DEF Body, PlacementSteps, Need, Want, Calls, DbSync, StartServices, One, All
<1>30. Body("nova_steps")' = Body("nova_steps")
  BY <1>0 DEF Body, NovaSteps, Need, Want, Calls, DbSync, StartServices, do_cell_reg, One, All
<1>31. Body("network_id")' = Body("network_id")
  BY <1>0 DEF Body, NetworkId, Need, Want, Calls, do_network_id, One, All
<1>32. Body("nova_flavors")' = Body("nova_flavors")
  BY <1>0 DEF Body, NovaFlavors, Need, Want, Calls, do_ensure_flavors, One, All
<1>33. Body("tempest_steps")' = Body("tempest_steps")
  BY <1>0 DEF Body, TempestSteps, Need, Want, Calls, do_fetch_image, do_ensure_test_images, do_tempest_cfg, One, All
<1> QED
  BY <1>1, <1>2, <1>3, <1>4, <1>5, <1>6, <1>7, <1>8, <1>9, <1>10, <1>11, <1>12, <1>13, <1>14, <1>15, <1>16, <1>17,
     <1>18, <1>19, <1>20, <1>21, <1>22, <1>23, <1>24, <1>25, <1>26, <1>27, <1>28, <1>29, <1>30, <1>31, <1>32, <1>33,
     TaskNames

-----------------------------------------------------------------------------
(* What a task that is past a step can rely on.                            *)

\* Past a wait, what was waited for has ended well.
LEMMA Waited ==
  ASSUME PassedInv, NEW t \in Task, NEW i \in 1 .. Len(Body(t)), i < pc[t], Body(t)[i].op = "want"
  PROVE  \A u \in Body(t)[i].tasks : pc[u] = End
  BY DEF PassedInv, Happened

\* Past its calls, a task has made them.
LEMMA HasMade ==
  ASSUME PassedInv, NEW t \in Task, NEW i \in 1 .. Len(Body(t)), i < pc[t], Body(t)[i].op = "calls"
  PROVE  Made(Body(t)[i].calls)
  BY DEF PassedInv, Happened

\* What a call brought, and where when it went to all nodes of at.
Brought(c) ==
  /\ c.gives \subseteq world
  /\ c.who = "all" =>
       /\ \A m \in c.at : \A x \in c.makes : <<m, x>> \in world
       /\ c.content # "" => \A m \in c.at : <<m, Content(c.content)>> \in world

\* What the effect of a call is, once it is there.
LEMMA EffectBrings ==
  ASSUME NEW c, NEW n, Effect(c, n) \subseteq world
  PROVE  Brought(c)
<1> DEFINE X == c.makes \cup IF c.content = "" THEN {} ELSE {Content(c.content)}
<1>1. c.gives \subseteq world /\ Targets(c, n) \X X \subseteq world
  BY DEF Effect
<1>2. ASSUME c.who = "all", NEW m \in c.at
      PROVE  \A x \in X : <<m, x>> \in world
  <2>1. m \in Targets(c, n)
    BY <1>2 DEF Targets
  <2> HIDE DEF X
  <2> QED
    BY <2>1, <1>1
<1> QED
  BY <1>1, <1>2 DEF Brought

\* The calls of a step, by their number.
LEMMA MadeBrings ==
  /\ \A a : Made(<<a>>) /\ ~a.quiet => Brought(a)
  /\ \A a, b : Made(<<a, b>>) /\ ~a.quiet /\ ~b.quiet => Brought(a) /\ Brought(b)
  /\ \A a, b, c : Made(<<a, b, c>>) /\ ~a.quiet /\ ~b.quiet /\ ~c.quiet => Brought(a) /\ Brought(b) /\ Brought(c)
  /\ \A a, b, c, d : Made(<<a, b, c, d>>) /\ ~a.quiet /\ ~b.quiet /\ ~c.quiet /\ ~d.quiet =>
       Brought(a) /\ Brought(b) /\ Brought(c) /\ Brought(d)
  /\ \A a, b, c, d, e : Made(<<a, b, c, d, e>>) /\ ~a.quiet /\ ~b.quiet /\ ~c.quiet /\ ~d.quiet /\ ~e.quiet =>
       Brought(a) /\ Brought(b) /\ Brought(c) /\ Brought(d) /\ Brought(e)
<1>1. \A a : Made(<<a>>) /\ ~a.quiet => Brought(a)
  BY EffectBrings DEF Made
<1>2. \A a, b : Made(<<a, b>>) /\ ~a.quiet /\ ~b.quiet => Brought(a) /\ Brought(b)
  BY EffectBrings DEF Made
<1>3. \A a, b, c : Made(<<a, b, c>>) /\ ~a.quiet /\ ~b.quiet /\ ~c.quiet => Brought(a) /\ Brought(b) /\ Brought(c)
  BY EffectBrings DEF Made
<1>4. \A a, b, c, d, e : Made(<<a, b, c, d, e>>) /\ ~a.quiet /\ ~b.quiet /\ ~c.quiet /\ ~d.quiet /\ ~e.quiet =>
        Brought(a) /\ Brought(b) /\ Brought(c) /\ Brought(d) /\ Brought(e)
  BY EffectBrings DEF Made
<1>5. \A a, b, c, d : Made(<<a, b, c, d>>) /\ ~a.quiet /\ ~b.quiet /\ ~c.quiet /\ ~d.quiet =>
        Brought(a) /\ Brought(b) /\ Brought(c) /\ Brought(d)
  BY EffectBrings DEF Made
<1> QED
  BY <1>1, <1>2, <1>3, <1>4, <1>5

\* The waits that a task is past.
LEMMA WaitTable ==
  ASSUME PassedInv
  PROVE
    /\ pc["haproxy_steps"] > 1 => pc["selinux"] = End
    /\ pc["cfg_httpd"] > 1 => pc["selinux"] = End
    /\ pc["cfg_httpd"] > 3 => pc["memcached_steps"] = End
    /\ pc["keystone_db"] > 1 => pc["mariadb_steps"] = End
    /\ pc["cfg_keystone_steps"] > 2 => pc["keystone_db"] = End /\ pc["keystone_fernet"] = End
    /\ pc["keystone_endpoints"] > 1 => pc["cfg_keystone_steps"] = End /\ pc["cfg_httpd"] = End
    /\ pc["keystone_users"] > 1 => pc["cfg_keystone_steps"] = End /\ pc["cfg_httpd"] = End
    /\ pc["keystone_ready"] > 1 => pc["keystone_users"] = End /\ pc["keystone_endpoints"] = End
    /\ pc["ceph_steps"] > 2 => pc["ceph_mon"] = End
    /\ pc["ceph_steps"] > 5 => pc["setup_mgr"] = End /\ pc["handle_pools"] = End
    /\ pc["ceph_mon"] > 1 => pc["hostname"] = End
    /\ pc["handle_osds"] > 1 => pc["ceph_mon"] = End
    /\ pc["handle_pools"] > 1 => pc["handle_osds"] = End
    /\ pc["key_glance"] > 1 => pc["ceph_mon"] = End
    /\ pc["key_glance"] > 3 => pc["handle_pools"] = End
    /\ pc["key_for_cinder_nova"] > 1 => pc["ceph_mon"] = End
    /\ pc["key_for_cinder_nova"] > 3 => pc["handle_pools"] = End
    /\ pc["glance_steps"] > 1 => pc["mariadb_steps"] = End
    /\ pc["glance_steps"] > 3 => pc["rabbit_steps"] = End
    /\ pc["glance_steps"] > 5 => pc["keystone_ready"] = End /\ pc["key_glance"] = End
    /\ pc["cinder_steps"] > 1 => pc["mariadb_steps"] = End
    /\ pc["cinder_steps"] > 3 => pc["rabbit_steps"] = End /\ pc["keystone_ready"] = End
    /\ pc["cinder_steps"] > 4 => pc["keystone_ready"] = End /\ pc["rabbit_steps"] = End /\ pc["key_for_cinder_nova"] = End
    /\ pc["neutron_steps"] > 1 => pc["mariadb_steps"] = End
    /\ pc["neutron_steps"] > 4 => pc["rabbit_steps"] = End
    /\ pc["neutron_steps"] > 5 => pc["net_config"] = End
    /\ pc["neutron_steps"] > 7 => pc["rabbit_steps"] = End
    /\ pc["neutron_steps"] > 8 => pc["osclient_steps"] = End
    /\ pc["placement_steps"] > 1 => pc["mariadb_steps"] = End
    /\ pc["nova_steps"] > 1 => pc["mariadb_steps"] = End
    /\ pc["nova_steps"] > 3 => pc["rabbit_steps"] = End /\ pc["have_content"] = End
    /\ pc["nova_steps"] > 5 => pc["keystone_ready"] = End /\ pc["libvirt"] = End
    /\ pc["network_id"] > 1 => pc["neutron_steps"] = End /\ pc["osclient_steps"] = End /\ pc["keystone_ready"] = End
    /\ pc["nova_flavors"] > 1 => pc["neutron_steps"] = End /\ pc["osclient_steps"] = End /\ pc["keystone_ready"] = End
    /\ pc["tempest_steps"] > 2 => pc["glance_steps"] = End /\ pc["osclient_steps"] = End /\ pc["keystone_ready"] = End
    /\ pc["tempest_steps"] > 4 => pc["network_id"] = End
    /\ pc["tempest_steps"] > 6 => pc["nova_flavors"] = End
<1>1. /\ pc["haproxy_steps"] > 1 => pc["selinux"] = End
  BY Waited, TaskNames, SMTT(20) DEF Body, HaproxySteps, Want, Need, Calls
<1>2. /\ pc["cfg_httpd"] > 1 => pc["selinux"] = End
      /\ pc["cfg_httpd"] > 3 => pc["memcached_steps"] = End
  BY Waited, TaskNames, SMTT(20) DEF Body, CfgHttpd, Want, Need, Calls
<1>3. /\ pc["keystone_db"] > 1 => pc["mariadb_steps"] = End
  BY Waited, TaskNames, SMTT(20) DEF Body, KeystoneDb, Want, Need, Calls
<1>4. /\ pc["cfg_keystone_steps"] > 2 => pc["keystone_db"] = End /\ pc["keystone_fernet"] = End
  BY Waited, TaskNames, SMTT(20) DEF Body, CfgKeystoneSteps, Want, Need, Calls
<1>5. /\ pc["keystone_endpoints"] > 1 => pc["cfg_keystone_steps"] = End /\ pc["cfg_httpd"] = End
  BY Waited, TaskNames, SMTT(20) DEF Body, KeystoneEndpoints, Want, Need, Calls
<1>6. /\ pc["keystone_users"] > 1 => pc["cfg_keystone_steps"] = End /\ pc["cfg_httpd"] = End
  BY Waited, TaskNames, SMTT(20) DEF Body, KeystoneUsers, Want, Need, Calls
<1>7. /\ pc["keystone_ready"] > 1 => pc["keystone_users"] = End /\ pc["keystone_endpoints"] = End
  BY Waited, TaskNames, SMTT(20) DEF Body, KeystoneReady, Want, Need, Calls
<1>8. /\ pc["ceph_steps"] > 2 => pc["ceph_mon"] = End
      /\ pc["ceph_steps"] > 5 => pc["setup_mgr"] = End /\ pc["handle_pools"] = End
  BY Waited, TaskNames, SMTT(20) DEF Body, CephSteps, Want, Need, Calls
<1>9. /\ pc["ceph_mon"] > 1 => pc["hostname"] = End
  BY Waited, TaskNames, SMTT(20) DEF Body, CephMon, Want, Need, Calls
<1>10. /\ pc["handle_osds"] > 1 => pc["ceph_mon"] = End
  BY Waited, TaskNames, SMTT(20) DEF Body, HandleOsds, Want, Need, Calls
<1>11. /\ pc["handle_pools"] > 1 => pc["handle_osds"] = End
  BY Waited, TaskNames, SMTT(20) DEF Body, HandlePools, Want, Need, Calls
<1>12. /\ pc["key_glance"] > 1 => pc["ceph_mon"] = End
       /\ pc["key_glance"] > 3 => pc["handle_pools"] = End
  BY Waited, TaskNames, SMTT(20) DEF Body, KeyGlance, Want, Need, Calls
<1>13. /\ pc["key_for_cinder_nova"] > 1 => pc["ceph_mon"] = End
       /\ pc["key_for_cinder_nova"] > 3 => pc["handle_pools"] = End
  BY Waited, TaskNames, SMTT(20) DEF Body, KeyForCinderNova, Want, Need, Calls
<1>14. /\ pc["glance_steps"] > 1 => pc["mariadb_steps"] = End
       /\ pc["glance_steps"] > 3 => pc["rabbit_steps"] = End
       /\ pc["glance_steps"] > 5 => pc["keystone_ready"] = End /\ pc["key_glance"] = End
  BY Waited, TaskNames, SMTT(20) DEF Body, GlanceSteps, Want, Need, Calls
<1>15. /\ pc["cinder_steps"] > 1 => pc["mariadb_steps"] = End
       /\ pc["cinder_steps"] > 3 => pc["rabbit_steps"] = End /\ pc["keystone_ready"] = End
       /\ pc["cinder_steps"] > 4 => pc["keystone_ready"] = End /\ pc["rabbit_steps"] = End /\ pc["key_for_cinder_nova"] = End
  BY Waited, TaskNames, SMTT(20) DEF Body, CinderSteps, Want, Need, Calls
<1>16. /\ pc["neutron_steps"] > 1 => pc["mariadb_steps"] = End
       /\ pc["neutron_steps"] > 4 => pc["rabbit_steps"] = End
       /\ pc["neutron_steps"] > 5 => pc["net_config"] = End
       /\ pc["neutron_steps"] > 7 => pc["rabbit_steps"] = End
       /\ pc["neutron_steps"] > 8 => pc["osclient_steps"] = End
  BY Waited, TaskNames, SMTT(20) DEF Body, NeutronSteps, Want, Need, Calls
<1>17. /\ pc["placement_steps"] > 1 => pc["mariadb_steps"] = End
  BY Waited, TaskNames, SMTT(20) DEF Body, PlacementSteps, Want, Need, Calls
<1>18. /\ pc["nova_steps"] > 1 => pc["mariadb_steps"] = End
       /\ pc["nova_steps"] > 3 => pc["rabbit_steps"] = End /\ pc["have_content"] = End
       /\ pc["nova_steps"] > 5 => pc["keystone_ready"] = End /\ pc["libvirt"] = End
  BY Waited, TaskNames, SMTT(20) DEF Body, NovaSteps, Want, Need, Calls
<1>19. /\ pc["network_id"] > 1 => pc["neutron_steps"] = End /\ pc["osclient_steps"] = End /\ pc["keystone_ready"] = End
  BY Waited, TaskNames, SMTT(20) DEF Body, NetworkId, Want, Need, Calls
<1>20. /\ pc["nova_flavors"] > 1 => pc["neutron_steps"] = End /\ pc["osclient_steps"] = End /\ pc["keystone_ready"] = End
  BY Waited, TaskNames, SMTT(20) DEF Body, NovaFlavors, Want, Need, Calls
<1>21. /\ pc["tempest_steps"] > 2 => pc["glance_steps"] = End /\ pc["osclient_steps"] = End /\ pc["keystone_ready"] = End
       /\ pc["tempest_steps"] > 4 => pc["network_id"] = End
       /\ pc["tempest_steps"] > 6 => pc["nova_flavors"] = End
  BY Waited, TaskNames, SMTT(20) DEF Body, TempestSteps, Want, Need, Calls
<1> QED
  BY <1>1, <1>2, <1>3, <1>4, <1>5, <1>6, <1>7, <1>8, <1>9, <1>10, <1>11, <1>12, <1>13, <1>14, <1>15, <1>16, <1>17,
     <1>18, <1>19, <1>20, <1>21

\* What the steps that a task is past have brought.
LEMMA SelinuxBrings ==
  ASSUME PassedInv, group \in [Node -> Group], pc["selinux"] > 1
  PROVE  Cloud("permissive") \in world
<1>1. Made(<<do_selinux_permissive>>)
  BY HasMade, TaskNames DEF Body, Selinux, Want, Need, Calls
<1>2. Brought(do_selinux_permissive)
  BY <1>1, MadeBrings, NotQuiet
<1> QED
  BY <1>2, HostsTable DEF Brought, do_selinux_permissive, All

LEMMA HostnameBrings ==
  ASSUME PassedInv, group \in [Node -> Group], pc["hostname"] > 1
  PROVE  Cloud("hostnames") \in world
<1>1. Made(<<do_hostname>>)
  BY HasMade, TaskNames DEF Body, Hostname, Want, Need, Calls
<1>2. Brought(do_hostname)
  BY <1>1, MadeBrings, NotQuiet
<1> QED
  BY <1>2, HostsTable DEF Brought, do_hostname, All

LEMMA HaproxyStepsBrings ==
  ASSUME PassedInv, group \in [Node -> Group], pc["haproxy_steps"] > 2
  PROVE  \A m \in Controllers : <<m, "haproxy">> \in world
<1>1. Made(<<do_proxy>>)
  BY HasMade, TaskNames DEF Body, HaproxySteps, Want, Need, Calls
<1>2. Brought(do_proxy)
  BY <1>1, MadeBrings, NotQuiet
<1> QED
  BY <1>2, HostsTable DEF Brought, do_proxy, All

LEMMA MemcachedStepsBrings ==
  ASSUME PassedInv, group \in [Node -> Group], pc["memcached_steps"] > 1
  PROVE  \A m \in Controllers : <<m, "memcached">> \in world
<1>1. Made(<<do_memcached_service_start>>)
  BY HasMade, TaskNames DEF Body, MemcachedSteps, Want, Need, Calls
<1>2. Brought(do_memcached_service_start)
  BY <1>1, MadeBrings, NotQuiet
<1> QED
  BY <1>2, HostsTable DEF Brought, do_memcached_service_start, All

LEMMA MariadbStepsBrings ==
  ASSUME PassedInv, group \in [Node -> Group], pc["mariadb_steps"] > 1
  PROVE  /\ \A m \in Controllers : <<m, "mariadb">> \in world
         /\ schemas \subseteq world
<1> DEFINE cs == <<do_mariadb_cfg, do_mariadb_galera_seed, do_mariadb, do_mariadb_query_state,
       do_create_clustr_user, do_handle_schemas>>
<1>0. Body("mariadb_steps") = <<Calls(cs)>>
  BY DEF Body, MariadbSteps
<1> HIDE DEF cs
<1>1. Made(cs)
  BY <1>0, HasMade, TaskNames, SMTT(20) DEF Calls
<1>2. PICK n \in Picks(cs) : \A j \in DOMAIN cs : ~cs[j].quiet => Effect(cs[j], n) \subseteq world
  BY <1>1 DEF Made
<1>2a. 3 \in DOMAIN cs /\ cs[3] = do_mariadb /\ 6 \in DOMAIN cs /\ cs[6] = do_handle_schemas
  BY DEF cs
<1>3. Effect(do_mariadb, n) \subseteq world /\ Effect(do_handle_schemas, n) \subseteq world
  <2>1. ~cs[3].quiet /\ ~cs[6].quiet
    BY <1>2a, NotQuiet
  <2> QED BY <1>2, <1>2a, <2>1
<1>4. Brought(do_mariadb) /\ Brought(do_handle_schemas)
  BY <1>3, EffectBrings
<1> QED
  BY <1>4, HostsTable DEF Brought, do_mariadb, do_handle_schemas, One, All

LEMMA RabbitStepsBrings ==
  ASSUME PassedInv, group \in [Node -> Group], pc["rabbit_steps"] > 1
  PROVE  \A m \in Controllers : <<m, "rabbit">> \in world
<1> DEFINE cs == <<do_rabbit_start, do_rabbitmq_test_in, do_rabbitmq_reset_join, do_rabbitmq_test_in,
       do_rabbit_addusers>>
<1>0. Body("rabbit_steps") = <<Calls(cs)>>
  BY DEF Body, RabbitSteps
<1> HIDE DEF cs
<1>1. Made(cs)
  BY <1>0, HasMade, TaskNames, SMTT(20) DEF Calls
<1>1a. 1 \in DOMAIN cs /\ cs[1] = do_rabbit_start
  BY DEF cs
<1>2. Brought(do_rabbit_start)
  <2>1. ~cs[1].quiet
    BY <1>1a, NotQuiet
  <2> QED
    BY <1>1, <1>1a, <2>1, EffectBrings DEF Made
<1> QED
  BY <1>2, HostsTable DEF Brought, do_rabbit_start, All

LEMMA OsclientStepsBrings ==
  ASSUME PassedInv, group \in [Node -> Group], pc["osclient_steps"] > 1
  PROVE  \A m \in Node : <<m, "openstack">> \in world
<1>1. Made(<<do_pip>>)
  BY HasMade, TaskNames DEF Body, OsclientSteps, Want, Need, Calls
<1>2. Brought(do_pip)
  BY <1>1, MadeBrings, NotQuiet
<1> QED
  BY <1>2, HostsTable DEF Brought, do_pip, All

LEMMA KeystoneFernetBrings ==
  ASSUME PassedInv, group \in [Node -> Group], pc["keystone_fernet"] > 1
  PROVE  \A m \in Controllers : <<m, "fernet keys">> \in world
<1>1. Made(<<do_fernet_init, do_fetch_fernet_as_tar, distribute_for_command>>)
  BY HasMade, TaskNames DEF Body, KeystoneFernet, Want, Need, Calls
<1> DEFINE cs == <<do_fernet_init, do_fetch_fernet_as_tar, distribute_for_command>>
<1>5. PICK n \in Picks(cs) : \A j \in DOMAIN cs : ~cs[j].quiet => Effect(cs[j], n) \subseteq world
  BY <1>1 DEF Made
<1>2. Effect(do_fernet_init, n) \subseteq world /\ Effect(distribute_for_command, n) \subseteq world
  BY <1>5, NotQuiet
<1>3. <<n, "fernet keys">> \in world
  BY <1>2 DEF Effect, Targets, do_fernet_init, One, All
<1>4. \A m \in Controllers \ {n} : <<m, "fernet keys">> \in world
  BY <1>2, HostsTable DEF Effect, Targets, distribute_for_command, Others, All
<1> QED
  BY <1>3, <1>4

LEMMA CfgHttpdBrings ==
  ASSUME PassedInv, group \in [Node -> Group], pc["cfg_httpd"] > 2
  PROVE  \A m \in Controllers : <<m, "keystone">> \in world
<1>1. Made(<<do_httpd_restart>>)
  BY HasMade, TaskNames DEF Body, CfgHttpd, Want, Need, Calls
<1>2. Brought(do_httpd_restart)
  BY <1>1, MadeBrings, NotQuiet
<1> QED
  BY <1>2, HostsTable DEF Brought, do_httpd_restart, All

LEMMA KeystoneDbBrings ==
  ASSUME PassedInv, group \in [Node -> Group], pc["keystone_db"] > 2
  PROVE  <<"tables", "keystone">> \in world
<1>1. Made(<<DbSync("keystone", "keystone", Schema("keystone", "keystone"))>>)
  BY HasMade, TaskNames DEF Body, KeystoneDb, Want, Need, Calls
<1>2. Brought(DbSync("keystone", "keystone", Schema("keystone", "keystone")))
  BY <1>1, MadeBrings, NotQuiet
<1> QED
  BY <1>2, HostsTable DEF Brought, DbSync, One, All

LEMMA CfgKeystoneStepsBrings ==
  ASSUME PassedInv, group \in [Node -> Group], pc["cfg_keystone_steps"] > 3
  PROVE  Cloud("admin") \in world
<1>1. Made(<<do_keystone_init>>)
  BY HasMade, TaskNames DEF Body, CfgKeystoneSteps, Want, Need, Calls
<1>2. Brought(do_keystone_init)
  BY <1>1, MadeBrings, NotQuiet
<1> QED
  BY <1>2, HostsTable DEF Brought, do_keystone_init, One, All

LEMMA KeystoneEndpointsBrings ==
  ASSUME PassedInv, group \in [Node -> Group], pc["keystone_endpoints"] > 2
  PROVE  Cloud("catalog") \in world
<1>1. Made(<<do_keystone_endpoint_sync>>)
  BY HasMade, TaskNames DEF Body, KeystoneEndpoints, Want, Need, Calls
<1>2. Brought(do_keystone_endpoint_sync)
  BY <1>1, MadeBrings, NotQuiet
<1> QED
  BY <1>2, HostsTable DEF Brought, do_keystone_endpoint_sync, ToKeystone, One, All

LEMMA KeystoneUsersBrings ==
  ASSUME PassedInv, group \in [Node -> Group], pc["keystone_users"] > 2
  PROVE  users \subseteq world
<1>1. Made(<<do_keystone_user_sync>>)
  BY HasMade, TaskNames DEF Body, KeystoneUsers, Want, Need, Calls
<1>2. Brought(do_keystone_user_sync)
  BY <1>1, MadeBrings, NotQuiet
<1> QED
  BY <1>2, HostsTable DEF Brought, do_keystone_user_sync, ToKeystone, One, All

LEMMA CephStepsBrings ==
  ASSUME PassedInv, pc["ceph_steps"] > 1
  PROVE  Cloud("mon_bootstrap") \in world
<1>1. Made(<<create_ceph_state_dirs>>)
  BY HasMade, TaskNames DEF Body, CephSteps, Want, Need, Calls
<1>2. Brought(create_ceph_state_dirs)
  BY <1>1, MadeBrings, NotQuiet
<1> QED
  BY <1>2 DEF Brought, create_ceph_state_dirs, All

LEMMA CephMonBrings ==
  ASSUME PassedInv, group \in [Node -> Group], pc["ceph_mon"] > 2
  PROVE  /\ Cloud("mon") \in world
         /\ \A m \in Controllers : <<m, "ceph-mon">> \in world
         /\ \A m \in Node : <<m, "ceph.conf">> \in world
<1>1. Made(<<do_place_ceph_conf, initial_keyring, do_boostrap_mon, set_mon_bootsrapped>>)
  BY HasMade, TaskNames DEF Body, CephMon, Want, Need, Calls
<1>2. Brought(do_place_ceph_conf)
  BY <1>1, MadeBrings, NotQuiet
<1>3. Brought(do_boostrap_mon)
  BY <1>1, MadeBrings, NotQuiet
<1>4. \A m \in Node : <<m, "ceph.conf">> \in world
  BY <1>2, HostsTable DEF Brought, do_place_ceph_conf, All
<1> QED
  BY <1>3, <1>4, HostsTable DEF Brought, do_boostrap_mon, All

LEMMA HandleOsdsBrings ==
  ASSUME PassedInv, group \in [Node -> Group], pc["handle_osds"] > 2
  PROVE  /\ Cloud("osd") \in world
         /\ \A m \in Controllers : <<m, "ceph-osd">> \in world
<1>1. Made(<<do_ceph_deploy_all_in_one_demo>>)
  BY HasMade, TaskNames DEF Body, HandleOsds, Want, Need, Calls
<1>2. Brought(do_ceph_deploy_all_in_one_demo)
  BY <1>1, MadeBrings, NotQuiet
<1> QED
  BY <1>2, HostsTable DEF Brought, do_ceph_deploy_all_in_one_demo, All

LEMMA HandlePoolsBrings ==
  ASSUME PassedInv, group \in [Node -> Group], pc["handle_pools"] > 2
  PROVE  Cloud("pools") \in world
<1>1. Made(<<do_ensure_pools>>)
  BY HasMade, TaskNames DEF Body, HandlePools, Want, Need, Calls
<1>2. Brought(do_ensure_pools)
  BY <1>1, MadeBrings, NotQuiet
<1> QED
  BY <1>2, HostsTable DEF Brought, do_ensure_pools, One, All

LEMMA SetupMgrBrings ==
  ASSUME PassedInv, group \in [Node -> Group], pc["setup_mgr"] > 1
  PROVE  \A m \in Controllers : <<m, "ceph-mgr">> \in world
<1>1. Made(<<fetch_key, do_setup_key_and_mgr_start>>)
  BY HasMade, TaskNames DEF Body, SetupMgr, Want, Need, Calls
<1>2. Brought(do_setup_key_and_mgr_start)
  BY <1>1, MadeBrings, NotQuiet
<1> QED
  BY <1>2, HostsTable DEF Brought, do_setup_key_and_mgr_start, All

LEMMA KeyGlanceBrings ==
  ASSUME PassedInv, group \in [Node -> Group], pc["key_glance"] > 2
  PROVE  Cloud("glance keyring") \in world
<1>1. Made(<<fetch_key, do_glance_keyring>>)
  BY HasMade, TaskNames DEF Body, KeyGlance, Want, Need, Calls
<1>2. Brought(do_glance_keyring)
  BY <1>1, MadeBrings, NotQuiet
<1> QED
  BY <1>2, HostsTable DEF Brought, do_glance_keyring, All

LEMMA GlanceStepsBrings ==
  ASSUME PassedInv, group \in [Node -> Group], pc["glance_steps"] > 4
  PROVE  /\ Cloud("glance") \in world
         /\ \A m \in Controllers : \A s \in Services["glance"] : <<m, s>> \in world
         /\ \A m \in Controllers : <<m, Content("glance")>> \in world
<1>1. Made(<<StartServices("glance")>>)
  BY HasMade, TaskNames DEF Body, GlanceSteps, Want, Need, Calls
<1>2. Brought(StartServices("glance"))
  BY <1>1, MadeBrings, NotQuiet
<1> QED
  BY <1>2, HostsTable DEF Brought, StartServices, All

LEMMA CinderStepsBrings ==
  ASSUME PassedInv, group \in [Node -> Group], pc["cinder_steps"] > 2
  PROVE  \A m \in Controllers : \A s \in Services["cinder"] : <<m, s>> \in world
<1>1. Made(<<DbSync("cinder", "cinder-api", Schema("cinder", "cinder")), StartServices("cinder")>>)
  BY HasMade, TaskNames DEF Body, CinderSteps, Want, Need, Calls
<1>2. Brought(StartServices("cinder"))
  BY <1>1, MadeBrings, NotQuiet
<1> QED
  BY <1>2, HostsTable DEF Brought, StartServices, All

LEMMA SwiftStepsBrings ==
  ASSUME PassedInv, group \in [Node -> Group], pc["swift_steps"] > 1
  PROVE  \A m \in Controllers : \A s \in Services["swift"] : <<m, s>> \in world
<1>1. Made(<<do_swift_deploy_demo_local, do_swift_service_start>>)
  BY HasMade, TaskNames DEF Body, SwiftSteps, Want, Need, Calls
<1>2. Brought(do_swift_service_start)
  BY <1>1, MadeBrings, NotQuiet
<1> QED
  BY <1>2, HostsTable DEF Brought, do_swift_service_start, StartServices, All

LEMMA NeutronStepsBring6 ==
  ASSUME PassedInv, group \in [Node -> Group], pc["neutron_steps"] > 6
  PROVE  \A m \in Node : \A s \in Services["neutron"] : <<m, s>> \in world
<1>1. Made(<<StartServices("neutron")>>)
  BY HasMade, TaskNames DEF Body, NeutronSteps, Want, Need, Calls
<1>2. Brought(StartServices("neutron"))
  BY <1>1, MadeBrings, NotQuiet
<1> QED
  BY <1>2, HostsTable DEF Brought, StartServices, All

LEMMA NeutronStepsBring9 ==
  ASSUME PassedInv, group \in [Node -> Group], pc["neutron_steps"] > 9
  PROVE  Cloud("public net") \in world
<1>1. Made(<<do_dummy_public_net>>)
  BY HasMade, TaskNames DEF Body, NeutronSteps, Want, Need, Calls
<1>2. Brought(do_dummy_public_net)
  BY <1>1, MadeBrings, NotQuiet
<1> QED
  BY <1>2, HostsTable DEF Brought, do_dummy_public_net, One, All

LEMMA LibvirtBrings ==
  ASSUME PassedInv, group \in [Node -> Group], pc["libvirt"] > 1
  PROVE  \A m \in Workers : <<m, "libvirtd">> \in world
<1>1. Made(<<do_libvirt>>)
  BY HasMade, TaskNames DEF Body, Libvirt, Want, Need, Calls
<1>2. Brought(do_libvirt)
  BY <1>1, MadeBrings, NotQuiet
<1> QED
  BY <1>2, HostsTable DEF Brought, do_libvirt, All

LEMMA PlacementStepsBrings ==
  ASSUME PassedInv, group \in [Node -> Group], pc["placement_steps"] > 2
  PROVE  \A m \in Controllers : \A s \in Services["placement"] : <<m, s>> \in world
<1>1. Made(<<DbSync("placement", "placement-api", Schema("placement", "placement")), StartServices("placement")>>)
  BY HasMade, TaskNames DEF Body, PlacementSteps, Want, Need, Calls
<1>2. Brought(StartServices("placement"))
  BY <1>1, MadeBrings, NotQuiet
<1> QED
  BY <1>2, HostsTable DEF Brought, StartServices, All

LEMMA NovaStepsBring2 ==
  ASSUME PassedInv, group \in [Node -> Group], pc["nova_steps"] > 2
  PROVE  <<"tables", "nova">> \in world
<1> DEFINE a == [DbSync("nova", "nova-api", Schema("nova_api", "nova")) EXCEPT !.gives = {}]
             b == [DbSync("nova", "nova-api", Schema("nova_cell0", "nova")) EXCEPT !.gives = {}]
             c == DbSync("nova", "nova-api", Schema("nova", "nova"))
<1>0. NovaSteps = <<Want({"mariadb_steps"}), Calls(<<a, b, c>>), Want({"rabbit_steps", "have_content"}),
                      Calls(<<StartServices("nova")>>), Want({"keystone_ready", "libvirt"}), Calls(<<do_cell_reg>>)>>
  BY DEF NovaSteps
<1>2. ~a.quiet /\ ~b.quiet /\ ~c.quiet /\ c.gives = {<<"tables", "nova">>}
  BY DEF DbSync, One, All
<1> HIDE DEF a, b, c
<1>1. Made(<<a, b, c>>)
  BY <1>0, HasMade, TaskNames DEF Body, Want, Calls
<1> QED
  BY <1>1, <1>2, MadeBrings DEF Brought

LEMMA NovaStepsBring4 ==
  ASSUME PassedInv, group \in [Node -> Group], pc["nova_steps"] > 4
  PROVE  \A m \in Node : \A s \in Services["nova"] : <<m, s>> \in world
<1>1. Made(<<StartServices("nova")>>)
  BY HasMade, TaskNames DEF Body, NovaSteps, Want, Need, Calls
<1>2. Brought(StartServices("nova"))
  BY <1>1, MadeBrings, NotQuiet
<1> QED
  BY <1>2, HostsTable DEF Brought, StartServices, All

LEMMA TempestStepsBrings ==
  ASSUME PassedInv, group \in [Node -> Group], pc["tempest_steps"] > 1
  PROVE  \A m \in Controllers : <<m, "cirros.img">> \in world
<1>1. Made(<<do_fetch_image>>)
  BY HasMade, TaskNames DEF Body, TempestSteps, Want, Need, Calls
<1>2. Brought(do_fetch_image)
  BY <1>1, MadeBrings, NotQuiet
<1> QED
  BY <1>2, HostsTable DEF Brought, do_fetch_image, All

-----------------------------------------------------------------------------
(* What the nodes were given can be read.                                  *)

HasKey(S, k) == \A n \in Hosts(S) : k \in sent[n].keys
HasPeer(S, p) == \A n \in Hosts(S) : p \in sent[n].peers

\* After compose() each component of the model has had its turn.
LEMMA Composed ==
  ASSUME CaseInv, ComposeInv, main # "compose", NEW c \in model
  PROVE  Spread(ComposeOf(c))
<1>1. c \in Component
  BY Models
<1>2. PICK i \in 1 .. 16 : Creation[i] = c
  BY <1>1, ComponentNames DEF Creation
<1> QED
  BY <1>2 DEF ComposeInv, Composition

\* A key composed for some services was sent to all nodes that run one of them.
LEMMA KeysGiven ==
  ASSUME CaseInv, ComposeInv, main # "compose", NEW c \in model, NEW S, NEW k, <<S, k>> \in ComposeOf(c).keys
  PROVE  HasKey(S, k)
<1>1. \A n \in Hosts(S) : k \in keys[n]
  BY Composed DEF Spread, Hosts
<1>2. ASSUME NEW n \in Node PROVE sent[n].keys = keys[n]
  <2>1. sent[n] = [keys |-> keys[n], peers |-> peers[n]]
    BY DEF ComposeInv
  <2> QED
    BY <2>1
<1>3. Hosts(S) \subseteq Node
  BY DEF Hosts
<1> QED
  BY <1>1, <1>2, <1>3, Zenon DEF HasKey

\* So was a peer.
LEMMA PeersGiven ==
  ASSUME CaseInv, ComposeInv, main # "compose", NEW c \in model, NEW S, NEW p, <<S, p>> \in ComposeOf(c).peers
  PROVE  HasPeer(S, p)
<1>1. \A n \in Hosts(S) : p \in peers[n]
  BY Composed DEF Spread, Hosts
<1>2. ASSUME NEW n \in Node PROVE sent[n].peers = peers[n]
  <2>1. sent[n] = [keys |-> keys[n], peers |-> peers[n]]
    BY DEF ComposeInv
  <2> QED
    BY <2>1
<1>3. Hosts(S) \subseteq Node
  BY DEF Hosts
<1> QED
  BY <1>1, <1>2, <1>3, Zenon DEF HasPeer

\* What the components of the model gave to whom.
LEMMA GivenTable ==
  ASSUME CaseInv, ComposeInv, main # "compose"
  PROVE
    /\ "mariadb" \in model => /\ HasKey({"mariadb"}, Key("mariadb", "clustercheckuser"))
                              /\ HasPeer({"mariadb"}, "mariadb cluster")
    /\ "rabbitmq" \in model => HasKey({"rabbit"}, Key("rabbitmq", "openstack")) /\ HasPeer({"rabbit"}, "rabbitmq")
    /\ "keystone" \in model => /\ \A k \in {Key("keystone", "admin"), Key("mariadb", "keystone")} : HasKey({"keystone"}, k)
                               /\ HasPeer({"keystone"}, "mariadb client")
    /\ {"ceph", "glance"} \subseteq model => HasPeer({"glance-api"}, "glance store")
    /\ "glance" \in model =>
         /\ \A k \in {Key("keystone", "glance"), Key("mariadb", "glance")} : HasKey(Services.glance, k)
         /\ HasPeer(Services.glance, "mariadb client")
    /\ "cinder" \in model =>
         /\ \A k \in {Key("keystone", "cinder"), Key("rabbitmq", "openstack"), Key("mariadb", "cinder")} : HasKey(Services.cinder, k)
         /\ \A p \in {"mariadb client", "rabbitmq"} : HasPeer(Services.cinder, p)
    /\ "swift" \in model => HasKey({"swift-proxy"}, Key("keystone", "swift"))
    /\ "neutron" \in model =>
         /\ \A k \in {Key("keystone", "neutron"), Key("keystone", "nova_for_neutron"), Key("mariadb", "neutron"),
                      Key("neutron+nova", "metadata"), Key("rabbitmq", "openstack")} : HasKey(Services.neutron, k)
         /\ \A p \in {"mariadb client", "rabbitmq"} : HasPeer(Services.neutron, p)
    /\ "placement" \in model =>
         \A k \in {Key("keystone", "placement"), Key("mariadb", "placement")} : HasKey({"placement-api"}, k)
    /\ "nova" \in model =>
         /\ \A k \in {Key("keystone", "nova"), Key("keystone", "neutron_for_nova"), Key("neutron+nova", "metadata"),
                      Key("mariadb", "nova"), Key("rabbitmq", "openstack")} : HasKey(Services.nova, k)
         /\ \A p \in {"rabbitmq", "mariadb client"} : HasPeer({"nova-api", "nova-compute", "nova-scheduler", "nova-conductor"}, p)
    /\ "tempest" \in model => HasKey({"tempest"}, Key("keystone", "admin"))
<1>1. ASSUME "mariadb" \in model
      PROVE  /\ HasKey({"mariadb"}, Key("mariadb", "clustercheckuser"))
             /\ HasPeer({"mariadb"}, "mariadb cluster")
  BY <1>1, KeysGiven, PeersGiven DEF ComposeOf, MariadbCompose, NoCompose
<1>2. ASSUME "rabbitmq" \in model
      PROVE  HasKey({"rabbit"}, Key("rabbitmq", "openstack")) /\ HasPeer({"rabbit"}, "rabbitmq")
  BY <1>2, KeysGiven, PeersGiven DEF ComposeOf, RabbitCompose, NoCompose
<1>3. ASSUME "keystone" \in model
      PROVE  /\ \A k \in {Key("keystone", "admin"), Key("mariadb", "keystone")} : HasKey({"keystone"}, k)
             /\ HasPeer({"keystone"}, "mariadb client")
  BY <1>3, KeysGiven, PeersGiven DEF ComposeOf, KeystoneCompose
<1>4. ASSUME {"ceph", "glance"} \subseteq model
      PROVE  HasPeer({"glance-api"}, "glance store")
  BY <1>4, PeersGiven DEF ComposeOf, CephCompose, NoCompose
<1>5. ASSUME "glance" \in model
      PROVE  /\ \A k \in {Key("keystone", "glance"), Key("mariadb", "glance")} : HasKey(Services.glance, k)
             /\ HasPeer(Services.glance, "mariadb client")
  BY <1>5, KeysGiven, PeersGiven DEF ComposeOf, GlanceCompose
<1>6. ASSUME "cinder" \in model
      PROVE  /\ \A k \in {Key("keystone", "cinder"), Key("rabbitmq", "openstack"), Key("mariadb", "cinder")} :
                  HasKey(Services.cinder, k)
             /\ \A p \in {"mariadb client", "rabbitmq"} : HasPeer(Services.cinder, p)
  BY <1>6, KeysGiven, PeersGiven DEF ComposeOf, CinderCompose
<1>7. ASSUME "swift" \in model
      PROVE  HasKey({"swift-proxy"}, Key("keystone", "swift"))
  BY <1>7, KeysGiven DEF ComposeOf, SwiftCompose, NoCompose
<1>8. ASSUME "neutron" \in model
      PROVE  /\ \A k \in {Key("keystone", "neutron"), Key("keystone", "nova_for_neutron"), Key("mariadb", "neutron"),
                          Key("neutron+nova", "metadata"), Key("rabbitmq", "openstack")} : HasKey(Services.neutron, k)
             /\ \A p \in {"mariadb client", "rabbitmq"} : HasPeer(Services.neutron, p)
  BY <1>8, KeysGiven, PeersGiven DEF ComposeOf, NeutronCompose
<1>9. ASSUME "placement" \in model
      PROVE  \A k \in {Key("keystone", "placement"), Key("mariadb", "placement")} : HasKey({"placement-api"}, k)
  BY <1>9, KeysGiven DEF ComposeOf, PlacementCompose, NoCompose
<1>10. ASSUME "nova" \in model
       PROVE  /\ \A k \in {Key("keystone", "nova"), Key("keystone", "neutron_for_nova"), Key("neutron+nova", "metadata"),
                           Key("mariadb", "nova"), Key("rabbitmq", "openstack")} : HasKey(Services.nova, k)
              /\ \A p \in {"rabbitmq", "mariadb client"} :
                   HasPeer({"nova-api", "nova-compute", "nova-scheduler", "nova-conductor"}, p)
  BY <1>10, KeysGiven, PeersGiven DEF ComposeOf, NovaCompose
<1>11. ASSUME "tempest" \in model
       PROVE  HasKey({"tempest"}, Key("keystone", "admin"))
  BY <1>11, KeysGiven DEF ComposeOf, TempestCompose, NoCompose
<1> QED
  BY <1>1, <1>2, <1>3, <1>4, <1>5, <1>6, <1>7, <1>8, <1>9, <1>10, <1>11

\* What it takes to read.
LEMMA Reading ==
  /\ \A n, u : Key("keystone", u) \in sent[n].keys => CanRead(n, AuthAs(u))
  /\ \A n, s, u : Key("mariadb", u) \in sent[n].keys /\ "mariadb client" \in sent[n].peers => CanRead(n, Db(s, u))
  /\ \A n : Key("rabbitmq", "openstack") \in sent[n].keys /\ "rabbitmq" \in sent[n].peers => CanRead(n, Queue)
  /\ \A n : Key("neutron+nova", "metadata") \in sent[n].keys => CanRead(n, Secret)
  /\ \A n, p : p \in sent[n].peers => CanRead(n, Peer(p))
  /\ \A n, s, p : Key(s, p) \in sent[n].keys => CanRead(n, KeyUse(s, p))
  BY DEF CanRead, AuthAs, Db, Queue, Secret, Peer, KeyUse, NoUse

\* Every component can read all its configuration is made from.
Readable(c) == \A n \in Hosts(Services[c]) : \A u \in Uses(c, n) : CanRead(n, u)

\* One case for each component whose configuration is made from what was composed.
LEMMA UsesCanBeRead ==
  ASSUME CaseInv, ComposeInv, main # "compose", NEW c \in model
  PROVE  Readable(c)
<1>h. group \in [Node -> Group]
  BY Models
<1>d. Dependencies[c] \subseteq model
  BY Models
<1>1. CASE c = "mariadb"
  <2>1. /\ Hosts(Services.mariadb) = Controllers /\ Hosts({"mariadb"}) = Controllers
    BY <1>h, HostsTable
  <2>2. /\ HasKey({"mariadb"}, Key("mariadb", "clustercheckuser"))
    BY <1>1, <1>d, GivenTable, DependencyTable
  <2> QED
    BY <1>1, <2>1, <2>2, Reading DEF Readable, Uses, HasKey, HasPeer, MariadbUses
<1>2. CASE c = "rabbitmq"
  <2>1. /\ Hosts(Services.rabbitmq) = Controllers /\ Hosts({"rabbit"}) = Controllers
    BY <1>h, HostsTable
  <2>2. /\ HasPeer({"rabbit"}, "rabbitmq")
    BY <1>2, <1>d, GivenTable, DependencyTable
  <2> QED
    BY <1>2, <2>1, <2>2, Reading DEF Readable, Uses, HasKey, HasPeer, RabbitUses
<1>3. CASE c = "keystone"
  <2>1. /\ Hosts(Services.keystone) = Controllers /\ Hosts({"keystone"}) = Controllers
    BY <1>h, HostsTable
  <2>2. /\ HasKey({"keystone"}, Key("mariadb", "keystone")) /\ HasPeer({"keystone"}, "mariadb client")
    BY <1>3, <1>d, GivenTable, DependencyTable
  <2> QED
    BY <1>3, <2>1, <2>2, Reading DEF Readable, Uses, HasKey, HasPeer, KeystoneUses
<1>4. CASE c = "glance"
  <2>1. /\ Hosts(Services.glance) = Controllers /\ Hosts({"glance-api"}) = Controllers
    BY <1>h, HostsTable
  <2>2. /\ HasKey(Services.glance, Key("keystone", "glance"))
        /\ HasKey(Services.glance, Key("mariadb", "glance")) /\ HasPeer(Services.glance, "mariadb client")
        /\ HasPeer({"glance-api"}, "glance store")
    BY <1>4, <1>d, GivenTable, DependencyTable
  <2>3. ASSUME NEW n \in Controllers
        PROVE  CanRead(n, AuthAs("glance")) /\ CanRead(n, Db("glance", "glance")) /\ CanRead(n, Peer("glance store"))
    BY <2>1, <2>2, Reading DEF HasKey, HasPeer
  <2> QED
    BY <1>4, <2>1, <2>3 DEF Readable, Uses, GlanceUses
<1>5. CASE c = "cinder"
  <2>1. /\ Hosts(Services.cinder) = Controllers
    BY <1>h, HostsTable
  <2>2. /\ HasKey(Services.cinder, Key("keystone", "cinder"))
        /\ HasKey(Services.cinder, Key("mariadb", "cinder"))
        /\ HasKey(Services.cinder, Key("rabbitmq", "openstack")) /\ HasPeer(Services.cinder, "mariadb client")
        /\ HasPeer(Services.cinder, "rabbitmq")
    BY <1>5, <1>d, GivenTable, DependencyTable
  <2> QED
    BY <1>5, <2>1, <2>2, Reading DEF Readable, Uses, HasKey, HasPeer, CinderUses
<1>6. CASE c = "swift"
  <2>1. /\ Hosts(Services.swift) = Controllers /\ Hosts({"swift-proxy"}) = Controllers
    BY <1>h, HostsTable
  <2>2. /\ HasKey({"swift-proxy"}, Key("keystone", "swift"))
    BY <1>6, <1>d, GivenTable, DependencyTable
  <2> QED
    BY <1>6, <2>1, <2>2, Reading DEF Readable, Uses, HasKey, HasPeer, SwiftUses
<1>7. CASE c = "neutron"
  <2>1. /\ Hosts(Services.neutron) = Node
    BY <1>h, HostsTable
  <2>2. /\ HasKey(Services.neutron, Key("keystone", "neutron"))
        /\ HasKey(Services.neutron, Key("keystone", "nova_for_neutron"))
        /\ HasKey(Services.neutron, Key("mariadb", "neutron"))
        /\ HasKey(Services.neutron, Key("neutron+nova", "metadata"))
        /\ HasKey(Services.neutron, Key("rabbitmq", "openstack")) /\ HasPeer(Services.neutron, "mariadb client")
        /\ HasPeer(Services.neutron, "rabbitmq")
    BY <1>7, <1>d, GivenTable, DependencyTable
  <2>3. ASSUME NEW n \in Node
        PROVE  /\ CanRead(n, Queue) /\ CanRead(n, Db("neutron", "neutron")) /\ CanRead(n, Secret)
               /\ CanRead(n, AuthAs("neutron")) /\ CanRead(n, AuthAs("nova_for_neutron"))
    BY <2>1, <2>2, Reading DEF HasKey, HasPeer
  <2> QED
    BY <1>7, <2>1, <2>3 DEF Readable, Uses, NeutronUses
<1>8. CASE c = "placement"
  <2>1. /\ Hosts(Services.placement) = Controllers /\ Hosts({"placement-api"}) = Controllers
        /\ Hosts({"keystone"}) = Controllers
    BY <1>h, HostsTable
  <2>2. /\ HasKey({"placement-api"}, Key("keystone", "placement"))
        /\ HasKey({"placement-api"}, Key("mariadb", "placement")) /\ HasPeer({"keystone"}, "mariadb client")
    BY <1>8, <1>d, GivenTable, DependencyTable
  <2> QED
    BY <1>8, <2>1, <2>2, Reading DEF Readable, Uses, HasKey, HasPeer, PlacementUses
<1>9. CASE c = "nova"
  <2>1. /\ Hosts(Services.nova) = Node
        /\ Hosts({"nova-api", "nova-compute", "nova-scheduler", "nova-conductor"}) = Node
    BY <1>h, HostsTable
  <2>2. /\ HasKey(Services.nova, Key("keystone", "nova"))
        /\ HasKey(Services.nova, Key("keystone", "neutron_for_nova"))
        /\ HasKey(Services.nova, Key("mariadb", "nova"))
        /\ HasKey(Services.nova, Key("neutron+nova", "metadata"))
        /\ HasKey(Services.nova, Key("rabbitmq", "openstack"))
        /\ HasPeer({"nova-api", "nova-compute", "nova-scheduler", "nova-conductor"}, "mariadb client")
        /\ HasPeer({"nova-api", "nova-compute", "nova-scheduler", "nova-conductor"}, "rabbitmq")
    BY <1>9, <1>d, GivenTable, DependencyTable
  <2>3. ASSUME NEW n \in Node
        PROVE  /\ CanRead(n, Queue) /\ CanRead(n, Db("nova", "nova")) /\ CanRead(n, Db("nova_api", "nova"))
               /\ CanRead(n, Secret) /\ CanRead(n, AuthAs("nova")) /\ CanRead(n, AuthAs("neutron_for_nova"))
               /\ Key("keystone", "placement") \in sent[n].keys => CanRead(n, AuthAs("placement"))
    BY <2>1, <2>2, Reading DEF HasKey, HasPeer
  <2> QED
    BY <1>9, <2>1, <2>3 DEF Readable, Uses, NovaUses
<1>10. CASE c \notin {"mariadb", "rabbitmq", "keystone", "glance", "cinder", "swift", "neutron", "placement", "nova"}
  BY <1>10 DEF Readable, Uses
<1> QED
  BY <1>1, <1>2, <1>3, <1>4, <1>5, <1>6, <1>7, <1>8, <1>9, <1>10

\* So can the calls that read credentials or peers themselves.
LEMMA CallsCanRead ==
  ASSUME CaseInv, ComposeInv, main # "compose", NEW n \in Controllers
  PROVE  /\ "mariadb" \in model => CanRead(n, Peer("mariadb cluster")) /\ CanRead(n, KeyUse("mariadb", "clustercheckuser"))
         /\ "rabbitmq" \in model => CanRead(n, KeyUse("rabbitmq", "openstack"))
         /\ "keystone" \in model => CanRead(n, AdminKey)
  BY Models, GivenTable, HostsTable, Reading DEF HasKey, HasPeer, AdminKey

-----------------------------------------------------------------------------
(* What it takes that a call finds all it reads and needs.                 *)

\* The call is not noted in unmet, whenever it is made.
Fine(cs, n, i) ==
  /\ ContentIsThere(cs[i], n)
  /\ cs[i].retry = "no" /\ ~MayLack(cs[i].do) => NeedsAreThere(cs, n, i)
AllFine(cs) == \A n \in Picks(cs), i \in DOMAIN cs : Fine(cs, n, i)

\* The components whose configuration is made from what was composed.
Readers == {"mariadb", "rabbitmq", "keystone", "glance", "cinder", "swift", "neutron", "placement", "nova"}

\* On all nodes of at the call can read what it has to ...
CanMake(c) ==
  /\ c.who \in {"all", "one", "others"}
  /\ c.content \in Readers => c.content \in model /\ c.at \subseteq Hosts(Services[c.content])
  /\ \A m \in c.at : \A u \in c.uses : CanRead(m, u)
\* ... and has what it needs already.
Supplied(c) ==
  /\ c.needs \subseteq world /\ c.starts \subseteq Units(c.content)
  /\ \A m \in c.at : \A x \in c.here : <<m, x>> \in world
CallOK(c) == CanMake(c) /\ (c.retry # "no" \/ Supplied(c))

\* The nodes of a call are among those of at.
Within(c, n) == c.who = "one" => n \in c.at

LEMMA TargetsWithin ==
  ASSUME NEW c, NEW n, CanMake(c), Within(c, n)
  PROVE  Targets(c, n) \subseteq c.at
  BY DEF CanMake, Within, Targets

\* The configuration of the component of a call can be made on all its nodes.
LEMMA ContentFine ==
  ASSUME CaseInv, ComposeInv, main # "compose", NEW c, NEW n, CanMake(c), Within(c, n)
  PROVE  ContentIsThere(c, n)
<1> SUFFICES ASSUME NEW m \in c.at, NEW u \in Uses(c.content, m)
             PROVE  CanRead(m, u)
  BY TargetsWithin DEF ContentIsThere, CanMake
<1>1. CASE c.content \in Readers
  BY <1>1, UsesCanBeRead DEF Readable, CanMake
<1>2. CASE c.content \notin Readers
  BY <1>2 DEF Uses, Readers
<1> QED
  BY <1>1, <1>2

LEMMA AfterHas ==
  ASSUME NEW cs, NEW n, NEW i \in Nat
  PROVE  /\ world \subseteq After(cs, n, i - 1)
         /\ \A j \in 1 .. i - 1 : Effect(cs[j], n) \subseteq After(cs, n, i - 1)
  BY DEF After

\* What a call has from the start it has when its turn comes.
LEMMA SuppliedFine ==
  ASSUME NEW cs, NEW n, NEW i \in Nat, CanMake(cs[i]), Within(cs[i], n), Supplied(cs[i])
  PROVE  NeedsAreThere(cs, n, i)
<1>1. Targets(cs[i], n) \subseteq cs[i].at
  BY TargetsWithin
<1>2. world \subseteq After(cs, n, i - 1)
  BY AfterHas
<1> QED
  BY <1>1, <1>2 DEF NeedsAreThere, Supplied

LEMMA CallFine ==
  ASSUME CaseInv, ComposeInv, main # "compose", NEW cs, NEW n, NEW i \in Nat, CallOK(cs[i]), Within(cs[i], n)
  PROVE  Fine(cs, n, i)
  BY ContentFine, SuppliedFine DEF Fine, CallOK

\* All calls of a step that pick a node pick it from the same nodes.
LEMMA PicksWithin ==
  ASSUME NEW cs, NEW S, \A i \in DOMAIN cs : cs[i].who = "one" => cs[i].at = S, NEW n \in Picks(cs)
  PROVE  \A i \in DOMAIN cs : Within(cs[i], n)
  BY DEF Picks, Within

\* Calls that are each in order make a step that is.
LEMMA StepFine ==
  ASSUME CaseInv, ComposeInv, main # "compose", NEW cs, DOMAIN cs \subseteq Nat, NEW S,
         \A i \in DOMAIN cs : CallOK(cs[i]) /\ (cs[i].who = "one" => cs[i].at = S)
  PROVE  AllFine(cs)
  BY PicksWithin, CallFine DEF AllFine

\* Steps by the number of their calls.
LEMMA StepsFine ==
  ASSUME CaseInv, ComposeInv, main # "compose"
  PROVE  /\ \A a : CallOK(a) => AllFine(<<a>>)
         /\ \A a, b : CallOK(a) /\ CallOK(b) /\ a.who = "one" /\ b.who = "all" => AllFine(<<a, b>>)
         /\ \A a, b, c : /\ CallOK(a) /\ CallOK(b) /\ CallOK(c) /\ a.who = "one"
                         /\ \/ b.who = "all" /\ c.who = "all"
                            \/ b.who = "one" /\ c.who = "one" /\ a.at = b.at /\ a.at = c.at
                         => AllFine(<<a, b, c>>)
<1>1. ASSUME NEW a, CallOK(a)
      PROVE  AllFine(<<a>>)
  <2> DEFINE cs == <<a>>
  <2>1. DOMAIN cs \subseteq Nat /\ \A i \in DOMAIN cs : CallOK(cs[i]) /\ (cs[i].who = "one" => cs[i].at = a.at)
    BY <1>1
  <2> HIDE DEF cs
  <2>2. AllFine(cs)
    BY <2>1, StepFine
  <2> QED
    BY <2>2 DEF cs
<1>2. ASSUME NEW a, NEW b, CallOK(a), CallOK(b), a.who = "one", b.who = "all"
      PROVE  AllFine(<<a, b>>)
  <2> DEFINE cs == <<a, b>>
  <2>1. DOMAIN cs \subseteq Nat /\ \A i \in DOMAIN cs : CallOK(cs[i]) /\ (cs[i].who = "one" => cs[i].at = a.at)
    BY <1>2
  <2> HIDE DEF cs
  <2>2. AllFine(cs)
    BY <2>1, StepFine
  <2> QED
    BY <2>2 DEF cs
<1>3. ASSUME NEW a, NEW b, NEW c, CallOK(a), CallOK(b), CallOK(c), a.who = "one",
             \/ b.who = "all" /\ c.who = "all"
             \/ b.who = "one" /\ c.who = "one" /\ a.at = b.at /\ a.at = c.at
      PROVE  AllFine(<<a, b, c>>)
  <2> DEFINE cs == <<a, b, c>>
  <2>1. DOMAIN cs \subseteq Nat /\ \A i \in DOMAIN cs : CallOK(cs[i]) /\ (cs[i].who = "one" => cs[i].at = a.at)
    BY <1>3
  <2> HIDE DEF cs
  <2>2. AllFine(cs)
    BY <2>1, StepFine
  <2> QED
    BY <2>2 DEF cs
<1> QED
  BY <1>1, <1>2, <1>3

\* A step whose calls bring what later ones of it need.
LEMMA InOrderFine ==
  ASSUME CaseInv, ComposeInv, main # "compose", NEW cs, NEW S, DOMAIN cs \subseteq Nat,
         \A i \in DOMAIN cs : CanMake(cs[i]) /\ (cs[i].who = "one" => cs[i].at = S),
         \A n : (\A i \in DOMAIN cs : Within(cs[i], n)) =>
                  \A i \in DOMAIN cs : MayLack(cs[i].do) \/ NeedsAreThere(cs, n, i)
  PROVE  AllFine(cs)
<1> SUFFICES ASSUME NEW n \in Picks(cs), NEW i \in DOMAIN cs
             PROVE  Fine(cs, n, i)
  BY DEF AllFine
<1>1. \A j \in DOMAIN cs : Within(cs[j], n)
  BY PicksWithin
<1>2. ContentIsThere(cs[i], n)
  BY <1>1, ContentFine
<1> QED
  BY <1>1, <1>2 DEF Fine

\* What a call needs may be there since the start of the step or come of call j of it.
LEMMA EarlierBrings ==
  ASSUME NEW cs, NEW n, NEW i \in Nat, NEW j \in 1 .. i - 1,
         cs[i].needs \subseteq world \cup Effect(cs[j], n), cs[i].starts \subseteq Units(cs[i].content),
         \A m \in Targets(cs[i], n) : \A x \in cs[i].here : <<m, x>> \in world \cup Effect(cs[j], n)
  PROVE  NeedsAreThere(cs, n, i)
<1>1. world \cup Effect(cs[j], n) \subseteq After(cs, n, i - 1)
  BY AfterHas
<1> QED
  BY <1>1 DEF NeedsAreThere

\* The users that the components registered.
LEMMA UsersThere ==
  ASSUME CaseInv, ComposeInv, main # "compose"
  PROVE  /\ "glance" \in model => User("glance") \in users
         /\ "cinder" \in model => User("cinder") \in users
         /\ "swift" \in model => User("swift") \in users
         /\ "neutron" \in model => User("neutron") \in users /\ User("nova_for_neutron") \in users
         /\ "placement" \in model => User("placement") \in users
         /\ "nova" \in model => User("nova") \in users /\ User("placement") \in users /\ User("neutron_for_nova") \in users
<1>0. \A c \in model : ComposeOf(c).users \subseteq users
  BY Composed DEF Spread
<1>1. "glance" \in model => User("glance") \in users
  <2>1. ComposeOf("glance").users = {User("glance")}
    BY DEF ComposeOf, GlanceCompose
  <2> QED BY <1>0, <2>1
<1>2. "cinder" \in model => User("cinder") \in users
  <2>1. ComposeOf("cinder").users = {User("cinder")}
    BY DEF ComposeOf, CinderCompose
  <2> QED BY <1>0, <2>1
<1>3. "swift" \in model => User("swift") \in users
  <2>1. ComposeOf("swift").users = {User("swift")}
    BY DEF ComposeOf, SwiftCompose, NoCompose
  <2> QED BY <1>0, <2>1
<1>4. "neutron" \in model => User("neutron") \in users /\ User("nova_for_neutron") \in users
  <2>1. ComposeOf("neutron").users = {User("neutron"), User("nova_for_neutron")}
    BY DEF ComposeOf, NeutronCompose
  <2> QED BY <1>0, <2>1
<1>5. "placement" \in model => User("placement") \in users
  <2>1. ComposeOf("placement").users = {User("placement")}
    BY DEF ComposeOf, PlacementCompose, NoCompose
  <2> QED BY <1>0, <2>1
<1>6. "nova" \in model => User("nova") \in users /\ User("placement") \in users /\ User("neutron_for_nova") \in users
  <2>1. ComposeOf("nova").users = {User("nova"), User("placement"), User("neutron_for_nova")}
    BY DEF ComposeOf, NovaCompose
  <2> QED BY <1>0, <2>1
<1> QED BY <1>1, <1>2, <1>3, <1>4, <1>5, <1>6

\* The calls of every step that a task is at are fine.
LEMMA CallsFine ==
  ASSUME CaseInv, ComposeInv, TaskInv, PassedInv, StartInv, NEW t \in Task, pc[t] \in 1 .. Len(Body(t)),
         Body(t)[pc[t]].op = "calls"
  PROVE  AllFine(Body(t)[pc[t]].calls)
<1>m. main # "compose" /\ \A u \in Task : pc[u] # 0 => Owner(u) \in model /\ Dependencies[Owner(u)] \subseteq model
  BY Models DEF TaskInv
<1>d. \A c \in model : Dependencies[c] \subseteq model
  BY Models
<1>h. group \in [Node -> Group] /\ Controllers \subseteq Node
  BY Models
<1>1. ASSUME pc["selinux"] = 1
      PROVE  AllFine(<<do_selinux_permissive>>)
  <2>1. CallOK(do_selinux_permissive)
    BY DEF CallOK, CanMake, Supplied, Readers, do_selinux_permissive, All
  <2> QED
    BY <1>m, StepsFine, <2>1
<1>2. ASSUME pc["hostname"] = 1
      PROVE  AllFine(<<do_hostname>>)
  <2>1. CallOK(do_hostname)
    BY DEF CallOK, CanMake, Supplied, Readers, do_hostname, All
  <2> QED
    BY <1>m, StepsFine, <2>1
<1>3. ASSUME pc["haproxy_steps"] = 2
      PROVE  AllFine(<<do_proxy>>)
  <2>1. pc["selinux"] = End
    BY <1>3, WaitTable
  <2>2. pc["selinux"] > 1
    BY <2>1 DEF End
  <2>3. Cloud("permissive") \in world
    BY <2>2, <1>h, SelinuxBrings
  <2>4. CallOK(do_proxy)
    BY <2>3 DEF CallOK, CanMake, Supplied, Readers, do_proxy, All
  <2> QED
    BY <1>m, StepsFine, <2>4
<1>4. ASSUME pc["memcached_steps"] = 1
      PROVE  AllFine(<<do_memcached_service_start>>)
  <2>1. CallOK(do_memcached_service_start)
    BY DEF CallOK, CanMake, Supplied, Readers, do_memcached_service_start, All
  <2> QED
    BY <1>m, StepsFine, <2>1
<1>5. ASSUME pc["mariadb_steps"] = 1
      PROVE  AllFine(<<do_mariadb_cfg, do_mariadb_galera_seed, do_mariadb, do_mariadb_query_state,
       do_create_clustr_user, do_handle_schemas>>)
  <2> DEFINE cs == <<do_mariadb_cfg, do_mariadb_galera_seed, do_mariadb, do_mariadb_query_state,
       do_create_clustr_user, do_handle_schemas>>
  <2>1. "mariadb" \in model
    BY <1>5, <1>m, TaskNames, OwnerTable
  <2>2. Hosts({"mariadb"}) = Controllers /\ Hosts(Services["mariadb"]) = Controllers
    BY <1>h, HostsTable
  <2>3. \A m \in Controllers : CanRead(m, Peer("mariadb cluster")) /\ CanRead(m, KeyUse("mariadb", "clustercheckuser"))
    BY <2>1, <1>m, CallsCanRead
  <2>4. CanMake(do_mariadb_cfg) /\ Supplied(do_mariadb_cfg) /\ do_mariadb_cfg.who = "all"
    BY <2>1, <2>2, <2>3 DEF CanMake, Supplied, do_mariadb_cfg, All
  <2>5. CanMake(do_mariadb_galera_seed) /\ Supplied(do_mariadb_galera_seed) /\ do_mariadb_galera_seed.at = Controllers
    BY <2>2 DEF CanMake, Supplied, Readers, do_mariadb_galera_seed, One, All
  <2>6. /\ CanMake(do_mariadb) /\ do_mariadb.who = "all" /\ do_mariadb.needs = {Cloud("cluster")}
        /\ do_mariadb.here = {} /\ do_mariadb.starts = {}
    BY <2>2 DEF CanMake, Readers, do_mariadb, All
  <2>7. /\ CanMake(do_create_clustr_user) /\ do_create_clustr_user.who = "one" /\ do_create_clustr_user.at = Controllers
        /\ do_create_clustr_user.needs = {} /\ do_create_clustr_user.here = {"mariadb"} /\ do_create_clustr_user.starts = {}
    BY <2>2, <2>3 DEF CanMake, Readers, do_create_clustr_user, One, All
  <2>8. /\ CanMake(do_handle_schemas) /\ do_handle_schemas.who = "one" /\ do_handle_schemas.at = Controllers
        /\ do_handle_schemas.needs = {} /\ do_handle_schemas.here = {"mariadb"} /\ do_handle_schemas.starts = {}
    BY <2>2 DEF CanMake, Readers, do_handle_schemas, One, All
  <2>9. \A n : Cloud("cluster") \in Effect(do_mariadb_galera_seed, n)
    BY DEF Effect, do_mariadb_galera_seed, One, All
  <2>10. \A m \in Controllers : \A n : <<m, "mariadb">> \in Effect(do_mariadb, n)
    BY <2>2 DEF Effect, Targets, do_mariadb, All
  <2>10a. /\ CanMake(do_mariadb_query_state) /\ do_mariadb_query_state.who = "all"
          /\ do_mariadb_query_state.at = Controllers /\ do_mariadb_query_state.needs = {}
          /\ do_mariadb_query_state.here = {"mariadb"} /\ do_mariadb_query_state.starts = {}
    BY <2>2 DEF CanMake, Readers, do_mariadb_query_state, All
  <2>11. /\ DOMAIN cs = 1 .. 6 /\ cs[1] = do_mariadb_cfg /\ cs[2] = do_mariadb_galera_seed /\ cs[3] = do_mariadb
         /\ cs[4] = do_mariadb_query_state /\ cs[5] = do_create_clustr_user /\ cs[6] = do_handle_schemas
    OBVIOUS
  <2> HIDE DEF cs
  <2>12. ASSUME NEW n, \A i \in DOMAIN cs : Within(cs[i], n)
         PROVE  \A i \in DOMAIN cs : NeedsAreThere(cs, n, i)
    <3>1. NeedsAreThere(cs, n, 1) /\ NeedsAreThere(cs, n, 2)
      BY <2>4, <2>5, <2>11, <2>12, SuppliedFine
    <3>2. NeedsAreThere(cs, n, 3)
      BY <2>6, <2>9, <2>11, EarlierBrings
    <3>3. n \in Controllers /\ Targets(cs[5], n) = {n} /\ Targets(cs[6], n) = {n}
      BY <2>7, <2>8, <2>11, <2>12 DEF Within, Targets
    <3>3a. Targets(cs[4], n) = Controllers
      BY <2>10a, <2>11 DEF Targets
    <3>4. NeedsAreThere(cs, n, 4)
      <4>1. 3 \in 1 .. 4 - 1 /\ 4 \in Nat
        OBVIOUS
      <4> QED
        <5>1. /\ cs[4].needs \subseteq world \cup Effect(cs[3], n)
              /\ cs[4].starts \subseteq Units(cs[4].content)
          BY <2>10a, <2>11
        <5>2. \A m \in Targets(cs[4], n) : \A x \in cs[4].here : <<m, x>> \in world \cup Effect(cs[3], n)
          BY <2>10, <2>10a, <2>11, <3>3a
        <5> QED
          BY <4>1, <5>1, <5>2, EarlierBrings
    <3>5. NeedsAreThere(cs, n, 5)
      <4>1. 3 \in 1 .. 5 - 1 /\ 5 \in Nat
        OBVIOUS
      <4> QED
        BY <2>7, <2>10, <2>11, <3>3, <4>1, EarlierBrings
    <3>6. NeedsAreThere(cs, n, 6)
      <4>1. 3 \in 1 .. 6 - 1 /\ 6 \in Nat
        OBVIOUS
      <4> QED
        BY <2>8, <2>10, <2>11, <3>3, <4>1, EarlierBrings
    <3> QED
      BY <2>11, <3>1, <3>2, <3>4, <3>5, <3>6
  <2>13. \A i \in DOMAIN cs : CanMake(cs[i]) /\ (cs[i].who = "one" => cs[i].at = Controllers)
    <3>1. \A c \in {do_mariadb_cfg, do_mariadb_galera_seed, do_mariadb, do_mariadb_query_state,
              do_create_clustr_user, do_handle_schemas} :
            CanMake(c) /\ (c.who = "one" => c.at = Controllers)
      BY <2>4, <2>5, <2>6, <2>7, <2>8, <2>10a
    <3>2. \A i \in DOMAIN cs : cs[i] \in {do_mariadb_cfg, do_mariadb_galera_seed, do_mariadb, do_mariadb_query_state,
              do_create_clustr_user, do_handle_schemas}
      BY DEF cs
    <3> QED
      BY <3>1, <3>2
  <2>14. AllFine(cs)
    <3>1. DOMAIN cs \subseteq Nat
      BY <2>11
    <3> QED
      BY <3>1, <1>m, <2>12, <2>13, InOrderFine
  <2> QED
    BY <2>14 DEF cs
<1>6. ASSUME pc["rabbit_steps"] = 1
      PROVE  AllFine(<<do_rabbit_start, do_rabbitmq_test_in, do_rabbitmq_reset_join, do_rabbitmq_test_in,
       do_rabbit_addusers>>)
  <2> DEFINE cs == <<do_rabbit_start, do_rabbitmq_test_in, do_rabbitmq_reset_join, do_rabbitmq_test_in,
       do_rabbit_addusers>>
  <2>1. "rabbitmq" \in model
    BY <1>6, <1>m, TaskNames, OwnerTable
  <2>2. Hosts({"rabbit"}) = Controllers /\ Hosts(Services["rabbitmq"]) = Controllers
    BY <1>h, HostsTable
  <2>3. \A m \in Controllers : CanRead(m, KeyUse("rabbitmq", "openstack"))
    BY <2>1, <1>m, CallsCanRead
  <2>4. CanMake(do_rabbit_start) /\ Supplied(do_rabbit_start) /\ do_rabbit_start.who = "all"
    BY <2>1, <2>2 DEF CanMake, Supplied, do_rabbit_start, All
  <2>5. /\ CanMake(do_rabbit_addusers) /\ do_rabbit_addusers.who = "one" /\ do_rabbit_addusers.at = Controllers
        /\ do_rabbit_addusers.needs = {} /\ do_rabbit_addusers.here = {"rabbit"} /\ do_rabbit_addusers.starts = {}
    BY <2>2, <2>3 DEF CanMake, Readers, do_rabbit_addusers, One, All
  <2>6. \A m \in Controllers : \A n : <<m, "rabbit">> \in Effect(do_rabbit_start, n)
    BY <2>2 DEF Effect, Targets, do_rabbit_start, All
  <2>6a. /\ CanMake(do_rabbitmq_test_in) /\ do_rabbitmq_test_in.who = "all" /\ do_rabbitmq_test_in.at = Controllers
         /\ do_rabbitmq_test_in.needs = {} /\ do_rabbitmq_test_in.here = {"rabbit"} /\ do_rabbitmq_test_in.starts = {}
    BY <2>2 DEF CanMake, Readers, do_rabbitmq_test_in, All
  <2>6b. /\ CanMake(do_rabbitmq_reset_join) /\ do_rabbitmq_reset_join.who = "all"
         /\ do_rabbitmq_reset_join.at = Controllers /\ do_rabbitmq_reset_join.needs = {}
         /\ do_rabbitmq_reset_join.here = {"rabbit"} /\ do_rabbitmq_reset_join.starts = {}
    BY <2>2 DEF CanMake, Readers, do_rabbitmq_reset_join, All
  <2>7. /\ DOMAIN cs = 1 .. 5 /\ cs[1] = do_rabbit_start /\ cs[2] = do_rabbitmq_test_in
        /\ cs[3] = do_rabbitmq_reset_join /\ cs[4] = do_rabbitmq_test_in /\ cs[5] = do_rabbit_addusers
    OBVIOUS
  <2> HIDE DEF cs
  <2>8. ASSUME NEW n, \A i \in DOMAIN cs : Within(cs[i], n)
        PROVE  \A i \in DOMAIN cs : NeedsAreThere(cs, n, i)
    <3>1. NeedsAreThere(cs, n, 1)
      BY <2>4, <2>7, <2>8, SuppliedFine
    <3>2. n \in Controllers /\ Targets(cs[5], n) = {n}
      BY <2>5, <2>7, <2>8 DEF Within, Targets
    <3>3. NeedsAreThere(cs, n, 5)
      <4>1. 1 \in 1 .. 5 - 1 /\ 5 \in Nat
        OBVIOUS
      <4> QED
        BY <2>5, <2>6, <2>7, <3>2, <4>1, EarlierBrings
    <3>4. ASSUME NEW i \in {2, 3, 4} PROVE NeedsAreThere(cs, n, i)
      <4>1. 1 \in 1 .. i - 1 /\ i \in Nat
        OBVIOUS
      <4>2. cs[i].needs = {} /\ cs[i].here = {"rabbit"} /\ cs[i].starts = {} /\ Targets(cs[i], n) = Controllers
        BY <2>6a, <2>6b, <2>7 DEF Targets
      <4>3. /\ cs[i].needs \subseteq world \cup Effect(cs[1], n)
            /\ cs[i].starts \subseteq Units(cs[i].content)
        BY <4>2
      <4>4. \A m \in Targets(cs[i], n) : \A x \in cs[i].here : <<m, x>> \in world \cup Effect(cs[1], n)
        BY <2>6, <2>7, <4>2
      <4> HIDE DEF Effect, Targets, Units
      <4> QED
        BY <4>1, <4>3, <4>4, EarlierBrings
    <3> QED
      BY <2>7, <3>1, <3>3, <3>4
  <2>9. \A i \in DOMAIN cs : CanMake(cs[i]) /\ (cs[i].who = "one" => cs[i].at = Controllers)
    <3>1. \A c \in {do_rabbit_start, do_rabbitmq_test_in, do_rabbitmq_reset_join, do_rabbit_addusers} : CanMake(c) /\ (c.who = "one" => c.at = Controllers)
      BY <2>4, <2>5, <2>6a, <2>6b
    <3>2. \A i \in DOMAIN cs : cs[i] \in {do_rabbit_start, do_rabbitmq_test_in, do_rabbitmq_reset_join, do_rabbit_addusers}
      BY DEF cs
    <3> QED
      BY <3>1, <3>2
  <2>10. AllFine(cs)
    <3>1. DOMAIN cs \subseteq Nat
      BY <2>7
    <3> QED
      BY <3>1, <1>m, <2>8, <2>9, InOrderFine
  <2> QED
    BY <2>10 DEF cs
<1>7. ASSUME pc["osclient_steps"] = 1
      PROVE  AllFine(<<do_pip>>)
  <2>1. CallOK(do_pip)
    BY DEF CallOK, CanMake, Supplied, Readers, do_pip, All
  <2> QED
    BY <1>m, StepsFine, <2>1
<1>8. ASSUME pc["keystone_fernet"] = 1
      PROVE  AllFine(<<do_fernet_init, do_fetch_fernet_as_tar, distribute_for_command>>)
  <2> DEFINE cs == <<do_fernet_init, do_fetch_fernet_as_tar, distribute_for_command>>
  <2>1. "keystone" \in model
    BY <1>8, <1>m, TaskNames, OwnerTable
  <2>2. Hosts({"keystone"}) = Controllers /\ Hosts(Services["keystone"]) = Controllers
    BY <1>h, HostsTable
  <2>3. /\ CanMake(do_fernet_init) /\ Supplied(do_fernet_init)
        /\ do_fernet_init.who = "one" /\ do_fernet_init.at = Controllers
    BY <2>1, <2>2 DEF CanMake, Supplied, do_fernet_init, One, All
  <2>4. /\ CanMake(do_fetch_fernet_as_tar) /\ do_fetch_fernet_as_tar.who = "one" /\ do_fetch_fernet_as_tar.at = Controllers
        /\ do_fetch_fernet_as_tar.needs = {} /\ do_fetch_fernet_as_tar.here = {"fernet keys"}
        /\ do_fetch_fernet_as_tar.starts = {}
    BY <2>2 DEF CanMake, Readers, do_fetch_fernet_as_tar, One, All
  <2>5. CanMake(distribute_for_command) /\ Supplied(distribute_for_command) /\ distribute_for_command.who = "others"
    BY <2>2 DEF CanMake, Supplied, Readers, distribute_for_command, Others, All
  <2>6. \A n : <<n, "fernet keys">> \in Effect(do_fernet_init, n)
    BY DEF Effect, Targets, do_fernet_init, One, All
  <2>7. /\ DOMAIN cs = 1 .. 3 /\ cs[1] = do_fernet_init /\ cs[2] = do_fetch_fernet_as_tar
        /\ cs[3] = distribute_for_command
    OBVIOUS
  <2> HIDE DEF cs
  <2>8. ASSUME NEW n, \A i \in DOMAIN cs : Within(cs[i], n)
        PROVE  \A i \in DOMAIN cs : NeedsAreThere(cs, n, i)
    <3>1. NeedsAreThere(cs, n, 1) /\ NeedsAreThere(cs, n, 3)
      BY <2>3, <2>5, <2>7, <2>8, SuppliedFine
    <3>2. Targets(cs[2], n) = {n}
      BY <2>4, <2>7 DEF Targets
    <3>3. NeedsAreThere(cs, n, 2)
      <4>1. 1 \in 1 .. 2 - 1 /\ 2 \in Nat
        OBVIOUS
      <4> QED
        BY <2>4, <2>6, <2>7, <3>2, <4>1, EarlierBrings
    <3> QED
      BY <2>7, <3>1, <3>3
  <2>9. \A i \in DOMAIN cs : CanMake(cs[i]) /\ (cs[i].who = "one" => cs[i].at = Controllers)
    <3>1. \A c \in {do_fernet_init, do_fetch_fernet_as_tar, distribute_for_command} :
            CanMake(c) /\ (c.who = "one" => c.at = Controllers)
      BY <2>3, <2>4, <2>5
    <3>2. \A i \in DOMAIN cs : cs[i] \in {do_fernet_init, do_fetch_fernet_as_tar, distribute_for_command}
      BY DEF cs
    <3> QED
      BY <3>1, <3>2
  <2>10. AllFine(cs)
    <3>1. DOMAIN cs \subseteq Nat
      BY <2>7
    <3> QED
      BY <3>1, <1>m, <2>8, <2>9, InOrderFine
  <2> QED
    BY <2>10 DEF cs
<1>9. ASSUME pc["cfg_httpd"] = 2
      PROVE  AllFine(<<do_httpd_restart>>)
  <2>1. "keystone" \in model
    BY <1>9, <1>m, TaskNames, OwnerTable, DependencyTable
  <2>2. Hosts({"keystone"}) = Controllers /\ Hosts(Services["keystone"]) = Controllers
    BY <1>h, HostsTable
  <2>3. CallOK(do_httpd_restart)
    BY <2>1, <2>2 DEF CallOK, CanMake, Supplied, Readers, do_httpd_restart, All
  <2> QED
    BY <1>m, StepsFine, <2>3
<1>10. ASSUME pc["keystone_db"] = 2
       PROVE  AllFine(<<DbSync("keystone", "keystone", Schema("keystone", "keystone"))>>)
  <2>1. "keystone" \in model
    BY <1>10, <1>m, TaskNames, OwnerTable, DependencyTable
  <2>2. Hosts({"keystone"}) = Controllers /\ Hosts(Services["keystone"]) = Controllers
    BY <1>h, HostsTable
  <2>3. CallOK(DbSync("keystone", "keystone", Schema("keystone", "keystone")))
    BY <2>1, <2>2 DEF CallOK, CanMake, Supplied, Readers, DbSync, One, All
  <2> QED
    BY <1>m, StepsFine, <2>3
<1>11. ASSUME pc["cfg_keystone_steps"] = 3
       PROVE  AllFine(<<do_keystone_init>>)
  <2>1. "keystone" \in model
    BY <1>11, <1>m, TaskNames, OwnerTable, DependencyTable
  <2>2. Hosts({"keystone"}) = Controllers /\ Hosts(Services["keystone"]) = Controllers
    BY <1>h, HostsTable
  <2>3. \A m \in Controllers : CanRead(m, AdminKey)
    BY <2>1, <1>m, CallsCanRead
  <2>4. pc["keystone_db"] = End
    BY <1>11, WaitTable
  <2>5. pc["keystone_db"] > 2
    BY <2>4 DEF End
  <2>6. <<"tables", "keystone">> \in world
    BY <2>5, <1>h, KeystoneDbBrings
  <2>7. CallOK(do_keystone_init)
    BY <2>1, <2>2, <2>3, <2>6 DEF CallOK, CanMake, Supplied, Readers, do_keystone_init, One, All
  <2> QED
    BY <1>m, StepsFine, <2>7
<1>12. ASSUME pc["keystone_endpoints"] = 2
       PROVE  AllFine(<<do_keystone_endpoint_sync>>)
  <2>1. "keystone" \in model
    BY <1>12, <1>m, TaskNames, OwnerTable, DependencyTable
  <2>2. Hosts({"keystone"}) = Controllers
    BY <1>h, HostsTable
  <2>3. \A m \in Controllers : CanRead(m, AdminKey)
    BY <2>1, <1>m, CallsCanRead
  <2>4. pc["cfg_keystone_steps"] = End /\ pc["cfg_httpd"] = End
    BY <1>12, WaitTable
  <2>5. pc["keystone_fernet"] = End /\ pc["memcached_steps"] = End
    BY <2>4, WaitTable DEF End
  <2>6. pc["cfg_keystone_steps"] > 3
    BY <2>4, <2>5 DEF End
  <2>7. Cloud("admin") \in world
    BY <2>6, <1>h, CfgKeystoneStepsBrings
  <2>8. pc["cfg_httpd"] > 2
    BY <2>4, <2>5 DEF End
  <2>9. \A m \in Controllers : <<m, "keystone">> \in world
    BY <2>8, <1>h, CfgHttpdBrings
  <2>10. pc["keystone_fernet"] > 1
    BY <2>4, <2>5 DEF End
  <2>11. \A m \in Controllers : <<m, "fernet keys">> \in world
    BY <2>10, <1>h, KeystoneFernetBrings
  <2>12. pc["memcached_steps"] > 1
    BY <2>4, <2>5 DEF End
  <2>13. \A m \in Controllers : <<m, "memcached">> \in world
    BY <2>12, <1>h, MemcachedStepsBrings
  <2>14. CallOK(do_keystone_endpoint_sync)
    BY <2>1, <2>2, <2>3, <2>7, <2>9, <2>11, <2>13 DEF CallOK, CanMake, Supplied, Readers, do_keystone_endpoint_sync,
       ToKeystone, One, All
  <2> QED
    BY <1>m, StepsFine, <2>14
<1>13. ASSUME pc["keystone_users"] = 2
       PROVE  AllFine(<<do_keystone_user_sync>>)
  <2>1. "keystone" \in model
    BY <1>13, <1>m, TaskNames, OwnerTable, DependencyTable
  <2>2. Hosts({"keystone"}) = Controllers
    BY <1>h, HostsTable
  <2>3. \A m \in Controllers : CanRead(m, AdminKey)
    BY <2>1, <1>m, CallsCanRead
  <2>4. pc["cfg_keystone_steps"] = End /\ pc["cfg_httpd"] = End
    BY <1>13, WaitTable
  <2>5. pc["keystone_fernet"] = End /\ pc["memcached_steps"] = End
    BY <2>4, WaitTable DEF End
  <2>6. pc["cfg_keystone_steps"] > 3
    BY <2>4, <2>5 DEF End
  <2>7. Cloud("admin") \in world
    BY <2>6, <1>h, CfgKeystoneStepsBrings
  <2>8. pc["cfg_httpd"] > 2
    BY <2>4, <2>5 DEF End
  <2>9. \A m \in Controllers : <<m, "keystone">> \in world
    BY <2>8, <1>h, CfgHttpdBrings
  <2>10. pc["keystone_fernet"] > 1
    BY <2>4, <2>5 DEF End
  <2>11. \A m \in Controllers : <<m, "fernet keys">> \in world
    BY <2>10, <1>h, KeystoneFernetBrings
  <2>12. pc["memcached_steps"] > 1
    BY <2>4, <2>5 DEF End
  <2>13. \A m \in Controllers : <<m, "memcached">> \in world
    BY <2>12, <1>h, MemcachedStepsBrings
  <2>14. CallOK(do_keystone_user_sync)
    BY <2>1, <2>2, <2>3, <2>7, <2>9, <2>11, <2>13 DEF CallOK, CanMake, Supplied, Readers, do_keystone_user_sync,
       ToKeystone, One, All
  <2> QED
    BY <1>m, StepsFine, <2>14
<1>14. ASSUME pc["ceph_mon"] = 2
       PROVE  AllFine(<<do_place_ceph_conf, initial_keyring, do_boostrap_mon, set_mon_bootsrapped>>)
  <2> DEFINE cs == <<do_place_ceph_conf, initial_keyring, do_boostrap_mon, set_mon_bootsrapped>>
  <2>1. pc["hostname"] = End
    BY <1>14, WaitTable
  <2>2. Cloud("hostnames") \in world
    BY <2>1, <1>h, HostnameBrings DEF End
  <2>3. Hosts({"ceph-mon"}) = Controllers /\ Hosts(Services.ceph \cup {"cinder-volume", "nova-compute"}) = Node
    BY <1>h, HostsTable
  <2>4. CanMake(do_place_ceph_conf) /\ Supplied(do_place_ceph_conf) /\ do_place_ceph_conf.who = "all"
    BY DEF CanMake, Supplied, Readers, do_place_ceph_conf, All
  <2>5. /\ CanMake(initial_keyring) /\ initial_keyring.who = "one" /\ initial_keyring.at = Controllers
        /\ initial_keyring.needs = {} /\ initial_keyring.here = {"ceph.conf"} /\ initial_keyring.starts = {}
    BY <2>3 DEF CanMake, Readers, initial_keyring, One, All
  <2>6. /\ CanMake(do_boostrap_mon) /\ do_boostrap_mon.who = "all" /\ do_boostrap_mon.here = {}
        /\ do_boostrap_mon.needs = {Cloud("mon keyring"), Cloud("hostnames")} /\ do_boostrap_mon.starts = {}
    BY DEF CanMake, Readers, do_boostrap_mon, All
  <2>7. \A n : \A m \in Node : <<m, "ceph.conf">> \in Effect(do_place_ceph_conf, n)
    BY <2>3 DEF Effect, Targets, do_place_ceph_conf, All
  <2>8. \A n : Cloud("mon keyring") \in Effect(initial_keyring, n)
    BY DEF Effect, initial_keyring, One, All
  <2>13. /\ CanMake(set_mon_bootsrapped) /\ set_mon_bootsrapped.who = "all"
         /\ MayLack(set_mon_bootsrapped.do) \/ Supplied(set_mon_bootsrapped)
    <3>1. pc["ceph_steps"] > 1 => Cloud("mon_bootstrap") \in world
      BY <1>h, CephStepsBrings
    <3>2. pc["ceph_steps"] > 1 \/ MayLack(set_mon_bootsrapped.do)
      <4>1. "ceph_steps" \in Task
        BY TaskNames
      <4>2. pc["ceph_steps"] \in Nat
        BY <4>1 DEF TaskInv
      <4>3. set_mon_bootsrapped.do = "set_mon_bootsrapped"
        BY DEF set_mon_bootsrapped, All
      <4> QED
        BY <4>2, <4>3 DEF MayLack
    <3> QED
      BY <3>1, <3>2 DEF CanMake, Supplied, Readers, set_mon_bootsrapped, All
  <2>9. /\ DOMAIN cs = 1 .. 4 /\ cs[1] = do_place_ceph_conf /\ cs[2] = initial_keyring /\ cs[3] = do_boostrap_mon
        /\ cs[4] = set_mon_bootsrapped
    OBVIOUS
  <2> HIDE DEF cs
  <2>10. ASSUME NEW n, \A i \in DOMAIN cs : Within(cs[i], n)
         PROVE  \A i \in DOMAIN cs : MayLack(cs[i].do) \/ NeedsAreThere(cs, n, i)
    <3>1. NeedsAreThere(cs, n, 1)
      BY <2>4, <2>9, <2>10, SuppliedFine
    <3>2. n \in Node /\ Targets(cs[2], n) = {n}
      BY <1>h, <2>5, <2>9, <2>10 DEF Within, Targets
    <3>3. NeedsAreThere(cs, n, 2)
      <4>1. 1 \in 1 .. 2 - 1 /\ 2 \in Nat
        OBVIOUS
      <4> QED
        BY <2>5, <2>7, <2>9, <3>2, <4>1, EarlierBrings
    <3>4. NeedsAreThere(cs, n, 3)
      <4>1. 2 \in 1 .. 3 - 1 /\ 3 \in Nat
        OBVIOUS
      <4> QED
        BY <2>2, <2>6, <2>8, <2>9, <4>1, EarlierBrings
    <3>5. MayLack(cs[4].do) \/ NeedsAreThere(cs, n, 4)
      BY <2>9, <2>10, <2>13, SuppliedFine
    <3> QED
      BY <2>9, <3>1, <3>3, <3>4, <3>5
  <2>11. \A i \in DOMAIN cs : CanMake(cs[i]) /\ (cs[i].who = "one" => cs[i].at = Controllers)
    <3>1. \A c \in {do_place_ceph_conf, initial_keyring, do_boostrap_mon, set_mon_bootsrapped} :
            CanMake(c) /\ (c.who = "one" => c.at = Controllers)
      BY <2>4, <2>5, <2>6, <2>13
    <3>2. \A i \in DOMAIN cs : cs[i] \in {do_place_ceph_conf, initial_keyring, do_boostrap_mon, set_mon_bootsrapped}
      BY <2>9
    <3> QED
      BY <3>1, <3>2
  <2>12. AllFine(cs)
    <3>1. DOMAIN cs \subseteq Nat
      BY <2>9
    <3> QED
      BY <3>1, <1>m, <2>10, <2>11, InOrderFine
  <2> QED
    BY <2>12 DEF cs
<1>15. ASSUME pc["handle_osds"] = 2
       PROVE  AllFine(<<do_ceph_deploy_all_in_one_demo>>)
  <2>1. pc["ceph_mon"] = End
    BY <1>15, WaitTable
  <2>2. pc["ceph_mon"] > 2
    BY <2>1 DEF End
  <2>3. Cloud("mon") \in world
    BY <2>2, <1>h, CephMonBrings
  <2>4. CallOK(do_ceph_deploy_all_in_one_demo)
    BY <2>3 DEF CallOK, CanMake, Supplied, Readers, do_ceph_deploy_all_in_one_demo, All
  <2> QED
    BY <1>m, StepsFine, <2>4
<1>16. ASSUME pc["handle_pools"] = 2
       PROVE  AllFine(<<do_ensure_pools>>)
  <2>1. pc["handle_osds"] = End
    BY <1>16, WaitTable
  <2>2. pc["ceph_mon"] = End
    BY <2>1, WaitTable DEF End
  <2>3. pc["ceph_mon"] > 2
    BY <2>1, <2>2 DEF End
  <2>4. Cloud("mon") \in world
    BY <2>3, <1>h, CephMonBrings
  <2>5. pc["handle_osds"] > 2
    BY <2>1, <2>2 DEF End
  <2>6. Cloud("osd") \in world
    BY <2>5, <1>h, HandleOsdsBrings
  <2>7. CallOK(do_ensure_pools)
    BY <2>4, <2>6 DEF CallOK, CanMake, Supplied, Readers, do_ensure_pools, One, All
  <2> QED
    BY <1>m, StepsFine, <2>7
<1>17. ASSUME pc["setup_mgr"] = 1
       PROVE  AllFine(<<fetch_key, do_setup_key_and_mgr_start>>)
  <2>1. pc["ceph_mon"] = End
    BY <1>17, WaitTable DEF StartInv
  <2>2. pc["ceph_mon"] > 2
    BY <2>1 DEF End
  <2>3. Cloud("mon") \in world
    BY <2>2, <1>h, CephMonBrings
  <2>4. CallOK(fetch_key)
    BY <2>3 DEF CallOK, CanMake, Supplied, Readers, fetch_key, One, All, do_setup_key_and_mgr_start
  <2>5. CallOK(do_setup_key_and_mgr_start)
    BY <2>3 DEF CallOK, CanMake, Supplied, Readers, fetch_key, One, All, do_setup_key_and_mgr_start
  <2>6. fetch_key.who = "one" /\ do_setup_key_and_mgr_start.who = "all"
    BY DEF fetch_key, One, All, do_setup_key_and_mgr_start
  <2> QED
    BY <1>m, StepsFine, <2>4, <2>5, <2>6
<1>18. ASSUME pc["key_glance"] = 2
       PROVE  AllFine(<<fetch_key, do_glance_keyring>>)
  <2>1. Hosts({"glance-api"}) = Controllers
    BY <1>h, HostsTable
  <2>2. pc["ceph_mon"] = End
    BY <1>18, WaitTable
  <2>3. pc["glance_steps"] > 4
    BY <1>18 DEF StartInv
  <2>4. pc["ceph_mon"] > 2
    BY <2>2 DEF End
  <2>5. Cloud("mon") \in world
    BY <2>4, <1>h, CephMonBrings
  <2>6. \A m \in Controllers : <<m, Content("glance")>> \in world /\ <<m, "ceph.conf">> \in world
    BY <2>3, <2>4, <1>h, GlanceStepsBrings, CephMonBrings
  <2>7. CallOK(fetch_key)
    BY <2>1, <2>5, <2>6 DEF CallOK, CanMake, Supplied, Readers, fetch_key, One, All, do_glance_keyring
  <2>8. CallOK(do_glance_keyring)
    BY <2>1, <2>5, <2>6 DEF CallOK, CanMake, Supplied, Readers, fetch_key, One, All, do_glance_keyring
  <2>9. fetch_key.who = "one" /\ do_glance_keyring.who = "all"
    BY DEF fetch_key, One, All, do_glance_keyring
  <2> QED
    BY <1>m, StepsFine, <2>7, <2>8, <2>9
<1>19. ASSUME pc["key_for_cinder_nova"] = 2
       PROVE  AllFine(<<fetch_key, do_cinder_nova_keyring, do_register_ceph_libvirt>>)
  <2> DEFINE cs == <<fetch_key, do_cinder_nova_keyring, do_register_ceph_libvirt>>
  <2>1. pc["ceph_mon"] = End
    BY <1>19, WaitTable
  <2>2. pc["ceph_mon"] > 2
    BY <2>1 DEF End
  <2>3. Cloud("mon") \in world /\ \A m \in Node : <<m, "ceph.conf">> \in world
    BY <2>2, <1>h, CephMonBrings
  <2>4. Hosts({"ceph-mon"}) = Controllers /\ Hosts({"cinder-volume", "nova-compute"}) = Node /\ Hosts({"nova-compute"}) = Workers
    BY <1>h, HostsTable
  <2>5. CanMake(fetch_key) /\ Supplied(fetch_key) /\ fetch_key.who = "one" /\ fetch_key.at = Controllers
    BY <2>3, <2>4 DEF CanMake, Supplied, Readers, fetch_key, One, All
  <2>6. CanMake(do_cinder_nova_keyring) /\ Supplied(do_cinder_nova_keyring) /\ do_cinder_nova_keyring.who = "all"
    BY <2>3, <2>4 DEF CanMake, Supplied, Readers, do_cinder_nova_keyring, All
  <2>7. /\ CanMake(do_register_ceph_libvirt) /\ do_register_ceph_libvirt.who = "all"
        /\ do_register_ceph_libvirt.at = Workers /\ do_register_ceph_libvirt.needs = {}
        /\ do_register_ceph_libvirt.starts = {} /\ do_register_ceph_libvirt.here = {"libvirtd", "cinder keyring"}
    BY <2>4 DEF CanMake, Readers, do_register_ceph_libvirt, All
  <2>8. MayLack(do_register_ceph_libvirt.do) \/ \A m \in Workers : <<m, "libvirtd">> \in world
    <3>1. pc["libvirt"] > 1 => \A m \in Workers : <<m, "libvirtd">> \in world
      BY <1>h, LibvirtBrings
    <3>2. pc["libvirt"] # End \/ pc["libvirt"] > 1
      BY DEF End
    <3>3. do_register_ceph_libvirt.do = "do_register_ceph_libvirt"
      BY DEF do_register_ceph_libvirt, All
    <3> QED
      BY <3>1, <3>2, <3>3 DEF MayLack
  <2>9. \A n : \A m \in Node : <<m, "cinder keyring">> \in Effect(do_cinder_nova_keyring, n)
    BY <2>4 DEF Effect, Targets, do_cinder_nova_keyring, All
  <2>10. /\ DOMAIN cs = 1 .. 3 /\ cs[1] = fetch_key /\ cs[2] = do_cinder_nova_keyring
         /\ cs[3] = do_register_ceph_libvirt
    OBVIOUS
  <2> HIDE DEF cs
  <2>11. ASSUME NEW n, \A i \in DOMAIN cs : Within(cs[i], n)
         PROVE  \A i \in DOMAIN cs : MayLack(cs[i].do) \/ NeedsAreThere(cs, n, i)
    <3>1. NeedsAreThere(cs, n, 1)
      BY <2>5, <2>10, <2>11, SuppliedFine
    <3>2. NeedsAreThere(cs, n, 2)
      BY <2>6, <2>10, <2>11, SuppliedFine
    <3>3. ASSUME \A m \in Workers : <<m, "libvirtd">> \in world
          PROVE  NeedsAreThere(cs, n, 3)
      <4>1. 2 \in 1 .. 3 - 1 /\ 3 \in Nat
        OBVIOUS
      <4>2. Targets(cs[3], n) = Workers /\ Workers \subseteq Node
        BY <2>7, <2>10 DEF Targets, Workers
      <4>3. \A m \in Targets(cs[3], n) : \A x \in cs[3].here : <<m, x>> \in world \cup Effect(cs[2], n)
        BY <2>7, <2>9, <2>10, <3>3, <4>2
      <4> QED
        BY <2>7, <2>10, <4>1, <4>3, EarlierBrings
    <3> QED
      BY <2>8, <2>10, <3>1, <3>2, <3>3
  <2>12. \A i \in DOMAIN cs : CanMake(cs[i]) /\ (cs[i].who = "one" => cs[i].at = Controllers)
    <3>1. \A c \in {fetch_key, do_cinder_nova_keyring, do_register_ceph_libvirt} :
            CanMake(c) /\ (c.who = "one" => c.at = Controllers)
      BY <2>5, <2>6, <2>7
    <3>2. \A i \in DOMAIN cs : cs[i] \in {fetch_key, do_cinder_nova_keyring, do_register_ceph_libvirt}
      BY <2>10
    <3> QED
      BY <3>1, <3>2
  <2>13. AllFine(cs)
    <3>1. DOMAIN cs \subseteq Nat
      BY <2>10
    <3> QED
      BY <3>1, <1>m, <2>11, <2>12, InOrderFine
  <2> QED
    BY <2>13 DEF cs
<1>20. ASSUME pc["glance_steps"] = 2
       PROVE  AllFine(<<DbSync("glance", "glance-api", Schema("glance", "glance"))>>)
  <2>1. "glance" \in model
    BY <1>20, <1>m, TaskNames, OwnerTable, DependencyTable
  <2>2. Hosts({"glance-api"}) = Controllers /\ Hosts(Services["glance"]) = Controllers
    BY <1>h, HostsTable
  <2>3. CallOK(DbSync("glance", "glance-api", Schema("glance", "glance")))
    BY <2>1, <2>2 DEF CallOK, CanMake, Supplied, Readers, DbSync, One, All
  <2> QED
    BY <1>m, StepsFine, <2>3
<1>21. ASSUME pc["glance_steps"] = 4
       PROVE  AllFine(<<StartServices("glance")>>)
  <2>1. "glance" \in model
    BY <1>21, <1>m, TaskNames, OwnerTable, DependencyTable
  <2>2. Hosts(Services["glance"]) = Controllers
    BY <1>h, HostsTable
  <2>3. Services["glance"] \subseteq Units("glance")
    BY DEF Services, Units, GlanceUnits
  <2>4. CallOK(StartServices("glance"))
    BY <2>1, <2>2, <2>3 DEF CallOK, CanMake, Supplied, Readers, StartServices, All
  <2> QED
    BY <1>m, StepsFine, <2>4
<1>22. ASSUME pc["cinder_steps"] = 2
       PROVE  AllFine(<<DbSync("cinder", "cinder-api", Schema("cinder", "cinder")), StartServices("cinder")>>)
  <2>1. "cinder" \in model
    BY <1>22, <1>m, TaskNames, OwnerTable, DependencyTable
  <2>2. Hosts({"cinder-api"}) = Controllers /\ Hosts(Services["cinder"]) = Controllers
    BY <1>h, HostsTable
  <2>3. Services["cinder"] \subseteq Units("cinder")
    BY DEF Services, Units, CinderUnits
  <2>4. CallOK(DbSync("cinder", "cinder-api", Schema("cinder", "cinder")))
    BY <2>1, <2>2, <2>3 DEF CallOK, CanMake, Supplied, Readers, DbSync, One, All, StartServices
  <2>5. CallOK(StartServices("cinder"))
    BY <2>1, <2>2, <2>3 DEF CallOK, CanMake, Supplied, Readers, DbSync, One, All, StartServices
  <2>6. DbSync("cinder", "cinder-api", Schema("cinder", "cinder")).who = "one" /\ StartServices("cinder").who = "all"
    BY DEF DbSync, One, All, StartServices
  <2> QED
    BY <1>m, StepsFine, <2>4, <2>5, <2>6
<1>23. ASSUME pc["swift_steps"] = 1
       PROVE  AllFine(<<do_swift_deploy_demo_local, do_swift_service_start>>)
  <2> DEFINE cs == <<do_swift_deploy_demo_local, do_swift_service_start>>
  <2>1. "swift" \in model
    BY <1>23, <1>m, TaskNames, OwnerTable
  <2>2. /\ Hosts({"swift-object", "swift-container", "swift-account"}) = Controllers
        /\ Hosts(Services["swift"]) = Controllers
    BY <1>h, HostsTable
  <2>3. Services["swift"] \subseteq Units("swift")
    BY DEF Services, Units, SwiftUnits
  <2>4. /\ CanMake(do_swift_deploy_demo_local) /\ Supplied(do_swift_deploy_demo_local)
        /\ do_swift_deploy_demo_local.who = "all"
    BY <2>1, <2>2 DEF CanMake, Supplied, do_swift_deploy_demo_local, All
  <2>5. /\ CanMake(do_swift_service_start) /\ do_swift_service_start.who = "all" /\ do_swift_service_start.needs = {}
        /\ do_swift_service_start.at = Controllers /\ do_swift_service_start.here = {"rings"}
        /\ do_swift_service_start.starts \subseteq Units(do_swift_service_start.content)
    BY <2>1, <2>2, <2>3 DEF CanMake, do_swift_service_start, StartServices, All
  <2>6. \A n : \A m \in Controllers : <<m, "rings">> \in Effect(do_swift_deploy_demo_local, n)
    BY <2>2 DEF Effect, Targets, do_swift_deploy_demo_local, All
  <2>7. DOMAIN cs = 1 .. 2 /\ cs[1] = do_swift_deploy_demo_local /\ cs[2] = do_swift_service_start
    OBVIOUS
  <2> HIDE DEF cs
  <2>8. ASSUME NEW n, \A i \in DOMAIN cs : Within(cs[i], n)
        PROVE  \A i \in DOMAIN cs : NeedsAreThere(cs, n, i)
    <3>1. NeedsAreThere(cs, n, 1)
      BY <2>4, <2>7, <2>8, SuppliedFine
    <3>2. Targets(cs[2], n) = Controllers
      BY <2>5, <2>7 DEF Targets
    <3>3. NeedsAreThere(cs, n, 2)
      <4>1. 1 \in 1 .. 2 - 1 /\ 2 \in Nat
        OBVIOUS
      <4> QED
        BY <2>5, <2>6, <2>7, <3>2, <4>1, EarlierBrings
    <3> QED
      BY <2>7, <3>1, <3>3
  <2>9. \A i \in DOMAIN cs : CanMake(cs[i]) /\ (cs[i].who = "one" => cs[i].at = Controllers)
    <3>1. \A c \in {do_swift_deploy_demo_local, do_swift_service_start} : CanMake(c) /\ (c.who = "one" => c.at = Controllers)
      BY <2>4, <2>5
    <3>2. \A i \in DOMAIN cs : cs[i] \in {do_swift_deploy_demo_local, do_swift_service_start}
      BY DEF cs
    <3> QED
      BY <3>1, <3>2
  <2>10. AllFine(cs)
    <3>1. DOMAIN cs \subseteq Nat
      BY <2>7
    <3> QED
      BY <3>1, <1>m, <2>8, <2>9, InOrderFine
  <2> QED
    BY <2>10 DEF cs
<1>24. ASSUME pc["net_config"] = 1
       PROVE  AllFine(<<do_dummy_netconfig>>)
  <2>1. CallOK(do_dummy_netconfig)
    BY DEF CallOK, CanMake, Supplied, Readers, do_dummy_netconfig, All
  <2> QED
    BY <1>m, StepsFine, <2>1
<1>25. ASSUME pc["neutron_steps"] = 2
       PROVE  AllFine(<<DbSync("neutron", "neutron-server", Schema("neutron", "neutron"))>>)
  <2>1. "neutron" \in model
    BY <1>25, <1>m, TaskNames, OwnerTable, DependencyTable
  <2>2. Hosts({"neutron-server"}) = Controllers /\ Hosts(Services["neutron"]) = Node /\ Controllers \subseteq Node
    BY <1>h, HostsTable
  <2>3. CallOK(DbSync("neutron", "neutron-server", Schema("neutron", "neutron")))
    BY <2>1, <2>2 DEF CallOK, CanMake, Supplied, Readers, DbSync, One, All
  <2> QED
    BY <1>m, StepsFine, <2>3
<1>26. ASSUME pc["neutron_steps"] = 6
       PROVE  AllFine(<<StartServices("neutron")>>)
  <2>1. "neutron" \in model
    BY <1>26, <1>m, TaskNames, OwnerTable, DependencyTable
  <2>2. Hosts(Services["neutron"]) = Node
    BY <1>h, HostsTable
  <2>3. Services["neutron"] \subseteq Units("neutron")
    BY DEF Services, Units, NeutronUnits
  <2>4. CallOK(StartServices("neutron"))
    BY <2>1, <2>2, <2>3 DEF CallOK, CanMake, Supplied, Readers, StartServices, All
  <2> QED
    BY <1>m, StepsFine, <2>4
<1>27. ASSUME pc["neutron_steps"] = 9
       PROVE  AllFine(<<do_dummy_public_net>>)
  <2>1. "keystone" \in model
    BY <1>27, <1>m, TaskNames, OwnerTable, DependencyTable
  <2>2. Hosts({"neutron-server"}) = Controllers
    BY <1>h, HostsTable
  <2>3. \A m \in Controllers : CanRead(m, AdminKey)
    BY <2>1, <1>m, CallsCanRead
  <2>4. CallOK(do_dummy_public_net)
    BY <2>1, <2>2, <2>3 DEF CallOK, CanMake, Supplied, Readers, do_dummy_public_net, One, All
  <2> QED
    BY <1>m, StepsFine, <2>4
<1>28. ASSUME pc["libvirt"] = 1
       PROVE  AllFine(<<do_libvirt>>)
  <2>1. CallOK(do_libvirt)
    BY DEF CallOK, CanMake, Supplied, Readers, do_libvirt, All
  <2> QED
    BY <1>m, StepsFine, <2>1
<1>29. ASSUME pc["have_content"] = 1
       PROVE  AllFine(<<do_have_content>>)
  <2>1. CallOK(do_have_content)
    BY DEF CallOK, CanMake, Supplied, Readers, do_have_content, All
  <2> QED
    BY <1>m, StepsFine, <2>1
<1>30. ASSUME pc["placement_steps"] = 2
       PROVE  AllFine(<<DbSync("placement", "placement-api", Schema("placement", "placement")), StartServices("placement")>>)
  <2>1. "placement" \in model
    BY <1>30, <1>m, TaskNames, OwnerTable, DependencyTable
  <2>2. Hosts({"placement-api"}) = Controllers /\ Hosts(Services["placement"]) = Controllers
    BY <1>h, HostsTable
  <2>3. Services["placement"] \subseteq Units("placement")
    BY DEF Services, Units, PlacementUnits
  <2>4. CallOK(DbSync("placement", "placement-api", Schema("placement", "placement")))
    BY <2>1, <2>2, <2>3 DEF CallOK, CanMake, Supplied, Readers, DbSync, One, All, StartServices
  <2>5. CallOK(StartServices("placement"))
    BY <2>1, <2>2, <2>3 DEF CallOK, CanMake, Supplied, Readers, DbSync, One, All, StartServices
  <2>6. DbSync("placement", "placement-api", Schema("placement", "placement")).who = "one" /\ StartServices("placement").who = "all"
    BY DEF DbSync, One, All, StartServices
  <2> QED
    BY <1>m, StepsFine, <2>4, <2>5, <2>6
<1>31. ASSUME pc["nova_steps"] = 2
       PROVE  AllFine(<<[DbSync("nova", "nova-api", Schema("nova_api", "nova")) EXCEPT !.gives = {}],
                        [DbSync("nova", "nova-api", Schema("nova_cell0", "nova")) EXCEPT !.gives = {}],
                        DbSync("nova", "nova-api", Schema("nova", "nova"))>>)
  <2> DEFINE a == [DbSync("nova", "nova-api", Schema("nova_api", "nova")) EXCEPT !.gives = {}]
             b == [DbSync("nova", "nova-api", Schema("nova_cell0", "nova")) EXCEPT !.gives = {}]
             c == DbSync("nova", "nova-api", Schema("nova", "nova"))
  <2>1. "nova" \in model
    BY <1>31, <1>m, TaskNames, OwnerTable
  <2>2. Hosts({"nova-api"}) = Controllers /\ Hosts(Services["nova"]) = Node
    BY <1>h, HostsTable
  <2>3. CallOK(a) /\ a.who = "one" /\ a.at = Controllers
    BY <2>1, <2>2, <1>h DEF CallOK, CanMake, DbSync, One, All
  <2>4. CallOK(b) /\ b.who = "one" /\ b.at = Controllers
    BY <2>1, <2>2, <1>h DEF CallOK, CanMake, DbSync, One, All
  <2>5. CallOK(c) /\ c.who = "one" /\ c.at = Controllers
    BY <2>1, <2>2, <1>h DEF CallOK, CanMake, DbSync, One, All
  <2> HIDE DEF a, b, c
  <2>6. a.at = b.at /\ a.at = c.at
    BY <2>3, <2>4, <2>5
  <2>7. AllFine(<<a, b, c>>)
    BY <1>m, <2>3, <2>4, <2>5, <2>6, StepsFine
  <2> QED
    BY <2>7 DEF a, b, c
<1>32. ASSUME pc["nova_steps"] = 4
       PROVE  AllFine(<<StartServices("nova")>>)
  <2>1. Owner("nova_steps") = "nova" /\ "novnc" \in Dependencies["nova"]
    BY OwnerTable, DependencyTable
  <2>2. {"nova", "novnc"} \subseteq model
    BY <1>32, <2>1, <1>m, TaskNames
  <2>3. Hosts(Services["nova"]) = Node
    BY <1>h, HostsTable
  <2>4. Services["nova"] \subseteq Units("nova")
    BY <2>2 DEF Services, Units, NovaUnits
  <2>5. CallOK(StartServices("nova"))
    BY <2>2, <2>3, <2>4 DEF CallOK, CanMake, Supplied, Readers, StartServices, All
  <2> QED
    BY <1>m, StepsFine, <2>5
<1>33. ASSUME pc["nova_steps"] = 6
       PROVE  AllFine(<<do_cell_reg>>)
  <2>1. pc["nova_steps"] > 2
    BY <1>33
  <2>2. <<"tables", "nova">> \in world
    BY <2>1, <1>h, NovaStepsBring2
  <2>3. CallOK(do_cell_reg)
    BY <2>2 DEF CallOK, CanMake, Supplied, Readers, do_cell_reg, All
  <2> QED
    BY <1>m, StepsFine, <2>3
<1>34. ASSUME pc["network_id"] = 2
       PROVE  AllFine(<<do_network_id>>)
  <2>1. "keystone" \in model
    BY <1>34, <1>m, TaskNames, OwnerTable, DependencyTable
  <2>2. Hosts({"tempest"}) = Controllers /\ Controllers \subseteq Node
    BY <1>h, HostsTable
  <2>3. \A m \in Controllers : CanRead(m, AdminKey)
    BY <2>1, <1>m, CallsCanRead
  <2>4. pc["neutron_steps"] = End /\ pc["osclient_steps"] = End /\ pc["keystone_ready"] = End
    BY <1>34, WaitTable
  <2>5. pc["keystone_endpoints"] = End
    BY <2>4, WaitTable DEF End
  <2>6. pc["osclient_steps"] > 1
    BY <2>4, <2>5 DEF End
  <2>7. \A m \in Node : <<m, "openstack">> \in world
    BY <2>6, <1>h, OsclientStepsBrings
  <2>8. pc["neutron_steps"] > 9
    BY <2>4, <2>5 DEF End
  <2>9. Cloud("public net") \in world
    BY <2>8, <1>h, NeutronStepsBring9
  <2>10. pc["keystone_endpoints"] > 2
    BY <2>4, <2>5 DEF End
  <2>11. Cloud("catalog") \in world
    BY <2>10, <1>h, KeystoneEndpointsBrings
  <2>12. CallOK(do_network_id)
    BY <2>1, <2>2, <2>3, <2>7, <2>9, <2>11 DEF CallOK, CanMake, Supplied, Readers, do_network_id, One, All
  <2> QED
    BY <1>m, StepsFine, <2>12
<1>35. ASSUME pc["nova_flavors"] = 2
       PROVE  AllFine(<<do_ensure_flavors>>)
  <2>1. "keystone" \in model
    BY <1>35, <1>m, TaskNames, OwnerTable, DependencyTable
  <2>2. Hosts({"tempest"}) = Controllers
    BY <1>h, HostsTable
  <2>3. \A m \in Controllers : CanRead(m, AdminKey)
    BY <2>1, <1>m, CallsCanRead
  <2>4. CallOK(do_ensure_flavors)
    BY <2>1, <2>2, <2>3 DEF CallOK, CanMake, Supplied, Readers, do_ensure_flavors, One, All
  <2> QED
    BY <1>m, StepsFine, <2>4
<1>36. ASSUME pc["tempest_steps"] = 1
       PROVE  AllFine(<<do_fetch_image>>)
  <2>1. CallOK(do_fetch_image)
    BY DEF CallOK, CanMake, Supplied, Readers, do_fetch_image, All
  <2> QED
    BY <1>m, StepsFine, <2>1
<1>37. ASSUME pc["tempest_steps"] = 3
       PROVE  AllFine(<<do_ensure_test_images>>)
  <2>1. "keystone" \in model
    BY <1>37, <1>m, TaskNames, OwnerTable, DependencyTable
  <2>2. Hosts({"tempest"}) = Controllers /\ Controllers \subseteq Node
    BY <1>h, HostsTable
  <2>3. \A m \in Controllers : CanRead(m, AdminKey)
    BY <2>1, <1>m, CallsCanRead
  <2>4. pc["glance_steps"] = End /\ pc["osclient_steps"] = End /\ pc["keystone_ready"] = End
    BY <1>37, WaitTable
  <2>5. pc["keystone_endpoints"] = End /\ pc["keystone_users"] = End /\ pc["key_glance"] = End /\ pc["handle_pools"] = End
    BY <2>4, WaitTable DEF End
  <2>6. pc["tempest_steps"] > 1
    BY <1>37
  <2>7. \A m \in Controllers : <<m, "cirros.img">> \in world
    BY <2>6, <1>h, TempestStepsBrings
  <2>8. pc["osclient_steps"] > 1
    BY <2>4, <2>5 DEF End
  <2>9. \A m \in Node : <<m, "openstack">> \in world
    BY <2>8, <1>h, OsclientStepsBrings
  <2>10. pc["glance_steps"] > 4
    BY <2>4, <2>5 DEF End
  <2>11. Cloud("glance") \in world
    BY <2>10, <1>h, GlanceStepsBrings
  <2>12. pc["keystone_endpoints"] > 2
    BY <2>4, <2>5 DEF End
  <2>13. Cloud("catalog") \in world
    BY <2>12, <1>h, KeystoneEndpointsBrings
  <2>14. pc["key_glance"] > 2
    BY <2>4, <2>5 DEF End
  <2>15. Cloud("glance keyring") \in world
    BY <2>14, <1>h, KeyGlanceBrings
  <2>16. pc["handle_pools"] > 2
    BY <2>4, <2>5 DEF End
  <2>17. Cloud("pools") \in world
    BY <2>16, <1>h, HandlePoolsBrings
  <2>18. pc["keystone_users"] > 2
    BY <2>4, <2>5 DEF End
  <2>19. users \subseteq world
    BY <2>18, <1>h, KeystoneUsersBrings
  <2>20. "glance" \in model
    BY <1>37, <1>m, TaskNames, OwnerTable, DependencyTable
  <2>21. User("glance") \in world
    BY <2>19, <2>20, <1>m, UsersThere
  <2>22. CallOK(do_ensure_test_images)
    <3> DEFINE c == do_ensure_test_images
    <3>1. /\ c.who = "one" /\ c.at = Hosts({"tempest"}) /\ c.content = "tempest" /\ c.uses = {AdminKey}
          /\ c.here = {"cirros.img", "openstack"} /\ c.starts = {}
          /\ c.needs = {Cloud("glance"), Cloud("catalog"), User("glance"), Cloud("glance keyring"), Cloud("pools")}
      BY DEF do_ensure_test_images, One, All
    <3> HIDE DEF c
    <3>2. CanMake(c)
      BY <2>2, <2>3, <3>1 DEF CanMake, Readers
    <3>3. c.needs \subseteq world
      BY <2>11, <2>13, <2>15, <2>17, <2>21, <3>1
    <3>4. \A m \in c.at : \A x \in c.here : <<m, x>> \in world
      BY <2>2, <2>7, <2>9, <3>1
    <3> QED BY <3>1, <3>2, <3>3, <3>4 DEF CallOK, Supplied, c
  <2> QED
    BY <1>m, StepsFine, <2>22
<1>38. ASSUME pc["tempest_steps"] = 5
       PROVE  AllFine(<<do_tempest_cfg>>)
  <2>1. "keystone" \in model
    BY <1>38, <1>m, TaskNames, OwnerTable, DependencyTable
  <2>2. Hosts({"tempest"}) = Controllers
    BY <1>h, HostsTable
  <2>3. \A m \in Controllers : CanRead(m, AdminKey)
    BY <2>1, <1>m, CallsCanRead
  <2>4. CallOK(do_tempest_cfg)
    BY <2>1, <2>2, <2>3 DEF CallOK, CanMake, Supplied, Readers, do_tempest_cfg, All
  <2> QED
    BY <1>m, StepsFine, <2>4
<1>39. CASE t = "selinux"
  BY <1>39, <1>1 DEF Body, Selinux, Want, Need, Calls
<1>40. CASE t = "hostname"
  BY <1>40, <1>2 DEF Body, Hostname, Want, Need, Calls
<1>41. CASE t = "haproxy_steps"
  BY <1>41, <1>3 DEF Body, HaproxySteps, Want, Need, Calls
<1>42. CASE t = "memcached_steps"
  BY <1>42, <1>4 DEF Body, MemcachedSteps, Want, Need, Calls
<1>43. CASE t = "mariadb_steps"
  BY <1>43, <1>5 DEF Body, MariadbSteps, Want, Need, Calls
<1>44. CASE t = "rabbit_steps"
  BY <1>44, <1>6 DEF Body, RabbitSteps, Want, Need, Calls
<1>45. CASE t = "osclient_steps"
  BY <1>45, <1>7 DEF Body, OsclientSteps, Want, Need, Calls
<1>46. CASE t = "keystone_fernet"
  BY <1>46, <1>8 DEF Body, KeystoneFernet, Want, Need, Calls
<1>47. CASE t = "cfg_httpd"
  BY <1>47, <1>9 DEF Body, CfgHttpd, Want, Need, Calls
<1>48. CASE t = "keystone_db"
  BY <1>48, <1>10 DEF Body, KeystoneDb, Want, Need, Calls
<1>49. CASE t = "cfg_keystone_steps"
  BY <1>49, <1>11 DEF Body, CfgKeystoneSteps, Want, Need, Calls
<1>50. CASE t = "keystone_endpoints"
  BY <1>50, <1>12 DEF Body, KeystoneEndpoints, Want, Need, Calls
<1>51. CASE t = "keystone_users"
  BY <1>51, <1>13 DEF Body, KeystoneUsers, Want, Need, Calls
<1>52. CASE t = "ceph_mon"
  BY <1>52, <1>14 DEF Body, CephMon, Want, Need, Calls
<1>53. CASE t = "handle_osds"
  BY <1>53, <1>15 DEF Body, HandleOsds, Want, Need, Calls
<1>54. CASE t = "handle_pools"
  BY <1>54, <1>16 DEF Body, HandlePools, Want, Need, Calls
<1>55. CASE t = "setup_mgr"
  BY <1>55, <1>17 DEF Body, SetupMgr, Want, Need, Calls
<1>56. CASE t = "key_glance"
  BY <1>56, <1>18 DEF Body, KeyGlance, Want, Need, Calls
<1>57. CASE t = "key_for_cinder_nova"
  BY <1>57, <1>19 DEF Body, KeyForCinderNova, Want, Need, Calls
<1>58. CASE t = "glance_steps"
  BY <1>58, <1>20, <1>21 DEF Body, GlanceSteps, Want, Need, Calls
<1>59. CASE t = "cinder_steps"
  BY <1>59, <1>22 DEF Body, CinderSteps, Want, Need, Calls
<1>60. CASE t = "swift_steps"
  BY <1>60, <1>23 DEF Body, SwiftSteps, Want, Need, Calls
<1>61. CASE t = "net_config"
  BY <1>61, <1>24 DEF Body, NetConfig, Want, Need, Calls
<1>62. CASE t = "neutron_steps"
  BY <1>62, <1>25, <1>26, <1>27 DEF Body, NeutronSteps, Want, Need, Calls
<1>63. CASE t = "libvirt"
  BY <1>63, <1>28 DEF Body, Libvirt, Want, Need, Calls
<1>64. CASE t = "have_content"
  BY <1>64, <1>29 DEF Body, HaveContent, Want, Need, Calls
<1>65. CASE t = "placement_steps"
  BY <1>65, <1>30 DEF Body, PlacementSteps, Want, Need, Calls
<1>66. CASE t = "nova_steps"
  <2> DEFINE a == [DbSync("nova", "nova-api", Schema("nova_api", "nova")) EXCEPT !.gives = {}]
             b == [DbSync("nova", "nova-api", Schema("nova_cell0", "nova")) EXCEPT !.gives = {}]
             c == DbSync("nova", "nova-api", Schema("nova", "nova"))
  <2>1. NovaSteps = <<Want({"mariadb_steps"}), Calls(<<a, b, c>>), Want({"rabbit_steps", "have_content"}),
                      Calls(<<StartServices("nova")>>), Want({"keystone_ready", "libvirt"}), Calls(<<do_cell_reg>>)>>
    BY DEF NovaSteps
  <2>2. pc["nova_steps"] = 2 => AllFine(<<a, b, c>>)
    BY <1>31, <1>32, <1>33
  <2> HIDE DEF a, b, c
  <2> QED
    BY <1>66, <2>1, <2>2, <1>31, <1>32, <1>33 DEF Body, Want, Calls
<1>67. CASE t = "network_id"
  BY <1>67, <1>34 DEF Body, NetworkId, Want, Need, Calls
<1>68. CASE t = "nova_flavors"
  BY <1>68, <1>35 DEF Body, NovaFlavors, Want, Need, Calls
<1>69. CASE t = "tempest_steps"
  BY <1>69, <1>36, <1>37, <1>38 DEF Body, TempestSteps, Want, Need, Calls
<1>70. CASE t \in {"keystone_ready", "ceph_steps"}
  <2>1. CASE t = "keystone_ready"
    BY <2>1, SMTT(20) DEF Body, KeystoneReady, Want, Need
  <2>2. CASE t = "ceph_steps"
    <3>1. CallOK(create_ceph_state_dirs)
      BY DEF CallOK, CanMake, Supplied, Readers, create_ceph_state_dirs, All
    <3>2. AllFine(<<create_ceph_state_dirs>>)
      BY <1>m, <3>1, StepsFine
    <3> QED
      BY <2>2, <3>2, SMTT(20) DEF Body, CephSteps, Want, Need, Calls
  <2> QED BY <1>70, <2>1, <2>2
<1> QED
  <2>1. t \in {"selinux", "hostname", "haproxy_steps", "memcached_steps", "mariadb_steps", "rabbit_steps",
             "osclient_steps", "keystone_fernet", "cfg_httpd", "keystone_db", "cfg_keystone_steps"}
       => AllFine(Body(t)[pc[t]].calls)
    BY <1>39, <1>40, <1>41, <1>42, <1>43, <1>44, <1>45, <1>46, <1>47, <1>48, <1>49
  <2>2. t \in {"keystone_endpoints", "keystone_users", "ceph_mon", "handle_osds", "handle_pools", "setup_mgr",
             "key_glance", "key_for_cinder_nova", "glance_steps", "cinder_steps"}
       => AllFine(Body(t)[pc[t]].calls)
    BY <1>50, <1>51, <1>52, <1>53, <1>54, <1>55, <1>56, <1>57, <1>58, <1>59
  <2>3. t \in {"swift_steps", "net_config", "neutron_steps", "libvirt", "have_content", "placement_steps",
             "nova_steps", "network_id", "nova_flavors", "tempest_steps"}
       => AllFine(Body(t)[pc[t]].calls)
    BY <1>60, <1>61, <1>62, <1>63, <1>64, <1>65, <1>66, <1>67, <1>68, <1>69
  <2> QED
    BY TaskNames, <2>1, <2>2, <2>3, <1>70

-----------------------------------------------------------------------------
(* What the steps of the deployment keep.                                  *)

LEMMA TurnsAreTasks ==
  ASSUME CaseInv
  PROVE  Turns \subseteq Task
  BY Models DEF Turns

\* The case and what was composed stay when only tasks move.
LEMMA CaseStays ==
  ASSUME CaseInv, UNCHANGED <<group, model, slow>>, breaks' \in 0 .. breaks
  PROVE  CaseInv'
<1>1. PICK c \in Cases : group = c.group /\ model = c.model /\ slow = c.slow /\ breaks \in 0 .. c.breaks
  BY DEF CaseInv
<1>2. c.breaks \in Nat
  BY BoundsAssumption
<1>3. breaks' \in 0 .. c.breaks
  BY <1>1, <1>2
<1> QED
  BY <1>1, <1>3 DEF CaseInv

\* What composes, and what it composes, depends on the model only.
LEMMA CompositionStays ==
  ASSUME model' = model
  PROVE  \A i : Composition(i)' = Composition(i)
  BY DEF Composition, ComposeOf, NoCompose, MariadbCompose, RabbitCompose, KeystoneCompose, CephCompose,
     GlanceCompose,
     CinderCompose, SwiftCompose, NeutronCompose, PlacementCompose, NovaCompose, TempestCompose

LEMMA SpreadStays ==
  ASSUME NEW c, Spread(c), group' = group, users \subseteq users', schemas \subseteq schemas',
         \A n \in Node : keys[n] \subseteq keys'[n] /\ peers[n] \subseteq peers'[n]
  PROVE  Spread(c)'
<1>1. \A n \in Node : At(n)' = At(n)
  BY DEF At, ControllerServices, WorkerServices
<1> QED
  BY <1>1 DEF Spread

LEMMA ComposedStays ==
  ASSUME ComposeInv, UNCHANGED <<group, model, composed, keys, peers, users, schemas>>, main # "compose",
         main' \in {"wait", "ok", "failed"}, sent' = sent
  PROVE  ComposeInv'
<1>1. ASSUME NEW i \in 1 .. composed
      PROVE  Spread(Composition(i))'
  <2>1. PICK c : c = Composition(i)
    OBVIOUS
  <2>2. Spread(c)'
    BY <2>1, SpreadStays DEF ComposeInv
  <2> QED
    BY <2>1, <2>2, CompositionStays
<1> QED
  BY <1>1 DEF ComposeInv

\* Task t may go past the step it is at, and the tasks of S may start.
Moves(t, S) ==
  /\ pc' \in [Task -> Nat]
  /\ \A u \in Task :
       /\ pc[u] <= pc'[u]
       /\ pc[u] = End => pc'[u] = End
       /\ pc'[u] # 0 => pc'[u] \in 1 .. Len(Body(u)) \cup {End}
       /\ pc[u] = 0 /\ pc'[u] # 0 => u \in S
       /\ u # t /\ pc[u] # 0 => pc'[u] = pc[u]
       /\ \A i \in 1 .. Len(Body(u)) : i < pc'[u] => i < pc[u] \/ (u = t /\ i = pc[t])

\* The arithmetic of it.
LEMMA Counting ==
  ASSUME NEW L \in 1 .. 9, NEW x, NEW y
  PROVE  /\ x \in 1 .. L /\ y = (IF x = L THEN End ELSE x + 1) =>
              /\ x <= y /\ x # 0 /\ x # End /\ y \in 1 .. L \cup {End}
              /\ \A i \in 1 .. L : i < y => i < x \/ i = x
         /\ x \in 1 .. L \cup {0, End} /\ (y = x \/ (x = 0 /\ y = 1)) =>
              /\ x <= y /\ (x = End => y = End) /\ (y # 0 => y \in 1 .. L \cup {End}) /\ (x # 0 => y = x)
              /\ \A i \in 1 .. L : i < y => i < x
  BY DEF End

\* All changes of pc that a task makes are of this kind.
LEMMA MovesBy ==
  ASSUME TaskInv, NEW t \in Task, Running(t), NEW S
  PROVE  /\ pc[t] \in 1 .. Len(Body(t))
         /\ pc' = pc => Moves(t, S)
         /\ pc' = Past(t, S) => Moves(t, S)
         /\ pc' = [Past(t, S) EXCEPT ![t] = pc[t]] => Moves(t, S)
<1>1. \A u \in Task : Len(Body(u)) \in 1 .. 9
  BY Bodies DEF BodyOK
<1>2. pc \in [Task -> Nat] /\ \A u \in Task : pc[u] # 0 => pc[u] \in 1 .. Len(Body(u)) \cup {End}
  BY DEF TaskInv
<1>3. pc[t] \in 1 .. Len(Body(t)) /\ pc[t] \in Nat /\ Len(Body(t)) \in 1 .. 9
  BY <1>1, <1>2 DEF Running, Started, Ended
<1>4. ASSUME pc' = pc
      PROVE  Moves(t, S)
  BY <1>1, <1>2, <1>4 DEF Moves
<1>5. ASSUME pc' = Past(t, S)
      PROVE  Moves(t, S)
  <2>1. pc' \in [Task -> Nat]
    BY <1>2, <1>3, <1>5 DEF Past, End
  <2>2. ASSUME NEW u \in Task, u # t
        PROVE  pc'[u] = IF u \in S /\ pc[u] = 0 THEN 1 ELSE pc[u]
    BY <1>5, <2>2 DEF Past
  <2>3. pc'[t] = IF pc[t] = Len(Body(t)) THEN End ELSE pc[t] + 1
    BY <1>5 DEF Past
  <2>4. ASSUME NEW u \in Task, u # t
        PROVE  /\ pc[u] <= pc'[u]
               /\ pc[u] = End => pc'[u] = End
               /\ pc'[u] # 0 => pc'[u] \in 1 .. Len(Body(u)) \cup {End}
               /\ pc[u] = 0 /\ pc'[u] # 0 => u \in S
               /\ pc[u] # 0 => pc'[u] = pc[u]
               /\ \A i \in 1 .. Len(Body(u)) : i < pc'[u] => i < pc[u]
    <3>1. Len(Body(u)) \in 1 .. 9 /\ pc[u] \in 1 .. Len(Body(u)) \cup {0, End}
      BY <1>1, <1>2
    <3>2. (pc'[u] = pc[u] \/ (pc[u] = 0 /\ pc'[u] = 1)) /\ (pc[u] = 0 /\ pc'[u] # 0 => u \in S)
      BY <2>2, <2>4
    <3> QED
      BY <3>1, <3>2, Counting
  <2>5. /\ pc[t] <= pc'[t] /\ pc[t] # 0 /\ pc[t] # End /\ pc'[t] \in 1 .. Len(Body(t)) \cup {End}
        /\ \A i \in 1 .. Len(Body(t)) : i < pc'[t] => i < pc[t] \/ i = pc[t]
    BY <2>3, <1>3, Counting
  <2> QED
    <3> SUFFICES ASSUME NEW u \in Task
                 PROVE  /\ pc[u] <= pc'[u]
                        /\ pc[u] = End => pc'[u] = End
                        /\ pc'[u] # 0 => pc'[u] \in 1 .. Len(Body(u)) \cup {End}
                        /\ pc[u] = 0 /\ pc'[u] # 0 => u \in S
                        /\ u # t /\ pc[u] # 0 => pc'[u] = pc[u]
                        /\ \A i \in 1 .. Len(Body(u)) : i < pc'[u] => i < pc[u] \/ (u = t /\ i = pc[t])
      BY <2>1 DEF Moves
    <3>1. CASE u = t
      BY <3>1, <2>5
    <3>2. CASE u # t
      BY <3>2, <2>4
    <3> QED
      BY <3>1, <3>2
<1>6. ASSUME pc' = [Past(t, S) EXCEPT ![t] = pc[t]]
      PROVE  Moves(t, S)
  <2>1. pc' = [u \in Task |-> IF u \in S /\ u # t /\ pc[u] = 0 THEN 1 ELSE pc[u]]
    BY <1>2, <1>6 DEF Past
  <2>2. pc' \in [Task -> Nat]
    BY <1>2, <2>1
  <2>3. ASSUME NEW u \in Task
        PROVE  pc'[u] = IF u \in S /\ u # t /\ pc[u] = 0 THEN 1 ELSE pc[u]
    BY <2>1
  <2>4. ASSUME NEW u \in Task
        PROVE  /\ pc[u] <= pc'[u]
               /\ pc[u] = End => pc'[u] = End
               /\ pc'[u] # 0 => pc'[u] \in 1 .. Len(Body(u)) \cup {End}
               /\ pc[u] = 0 /\ pc'[u] # 0 => u \in S
               /\ pc[u] # 0 => pc'[u] = pc[u]
               /\ \A i \in 1 .. Len(Body(u)) : i < pc'[u] => i < pc[u]
    <3>1. Len(Body(u)) \in 1 .. 9 /\ pc[u] \in 1 .. Len(Body(u)) \cup {0, End}
      BY <1>1, <1>2
    <3>2. (pc'[u] = pc[u] \/ (pc[u] = 0 /\ pc'[u] = 1)) /\ (pc[u] = 0 /\ pc'[u] # 0 => u \in S)
      BY <2>3
    <3> QED
      BY <3>1, <3>2, Counting
  <2> QED
    BY <2>2, <2>4 DEF Moves
<1> QED
  BY <1>3, <1>4, <1>5, <1>6

\* A step that has happened stays so: nothing leaves the world, no task leaves its end.
LEMMA HappenedStays ==
  ASSUME NEW s, Happened(s), world \subseteq world', s.op = "want" => s.tasks \subseteq Task,
         \A u \in Task : pc[u] = End => pc'[u] = End
  PROVE  Happened(s)'
<1>1. s.op = "calls" /\ Made(s.calls) => Made(s.calls)'
  BY DEF Made, Picks, Effect, Targets, Content
<1> QED
  BY <1>1 DEF Happened

\* Only tasks whose component is in the model are started, and those of
\* StartInv by who makes sure of what they need.
MayStart(S) ==
  /\ S \subseteq Task /\ \A u \in S : Owner(u) \in model
  /\ "setup_mgr" \in S => pc["ceph_mon"] = End
  /\ "key_glance" \in S => pc["glance_steps"] > 4
  /\ "key_for_cinder_nova" \in S => pc["cinder_steps"] # 0

\* A task may start what its step names.
LEMMA MayStartNamed ==
  ASSUME CaseInv, TaskInv, PassedInv, NEW t \in Task, pc[t] \in 1 .. Len(Body(t)),
         NEW s, s = Body(t)[pc[t]], s.op \in {"need", "want"}
  PROVE  MayStart(s.tasks)
<1>1. /\ s.tasks \subseteq Task
      /\ \A u \in s.tasks : Owner(u) = Owner(t) \/ Owner(u) \in Dependencies[Owner(t)]
      /\ "setup_mgr" \in s.tasks => t = "ceph_steps" /\ pc[t] > 2
      /\ "key_glance" \in s.tasks => t = "glance_steps" /\ pc[t] = 5
      /\ "key_for_cinder_nova" \in s.tasks => t = "cinder_steps"
  BY Bodies DEF BodyOK
<1>2. Owner(t) \in model /\ Dependencies[Owner(t)] \subseteq model
  BY Models DEF TaskInv
<1>3. "setup_mgr" \in s.tasks => pc["ceph_mon"] = End
  BY <1>1, WaitTable
<1> QED
  BY <1>1, <1>2, <1>3 DEF MayStart

Structure == CaseInv /\ ComposeInv /\ TaskInv /\ PassedInv /\ StartInv

\* A task that moves in order and passes only a step that has happened keeps the invariant.
LEMMA StepKeeps ==
  ASSUME Structure, NEW t \in Task, Running(t), NEW S, MayStart(S), Moves(t, S), UNCHANGED unchanged, breaks' \in 0 .. breaks,
         world \subseteq world', failed' = failed \/ (failed' = failed \cup {t} /\ pc' = pc),
         NEW s, s = Body(t)[pc[t]], pc'[t] # pc[t] => Happened(s)'
  PROVE  Structure'
<1>s. CaseInv /\ ComposeInv /\ TaskInv /\ PassedInv /\ StartInv
  BY DEF Structure
<1>u. UNCHANGED <<group, model, slow, main, composed, keys, peers, sent, users, schemas>>
  BY DEF unchanged
<1>m. main # "compose"
  BY <1>s DEF TaskInv, Running, Started
<1>b. \A u \in Task : Body(u)' = Body(u)
  BY <1>u, BodiesStay
<1>t. pc[t] \in 1 .. Len(Body(t))
  BY <1>s, MovesBy
<1>1. CaseInv'
  BY <1>s, <1>u, CaseStays
<1>2. ComposeInv'
  <2>1. main' \in {"wait", "ok", "failed"}
    BY <1>s, <1>u, <1>m DEF ComposeInv
  <2> QED
    BY <2>1, <1>s, <1>u, <1>m, ComposedStays
<1>3. TaskInv'
  <2>1. pc' \in [Task -> Nat] /\ \A u \in Task : pc'[u] # 0 => pc'[u] \in 1 .. Len(Body(u))' \cup {End}
    BY <1>b DEF Moves
  <2>2. failed' \subseteq {u \in Task : pc'[u] # 0 /\ pc'[u] # End}
    <3>1. failed \subseteq {u \in Task : pc[u] # 0 /\ pc[u] # End} /\ t \notin failed /\ pc[t] # 0 /\ pc[t] # End
      BY <1>s, <1>t DEF TaskInv, Running, Started, Ended
    <3>2. CASE failed' = failed
      BY <3>1, <3>2 DEF Moves
    <3>3. CASE failed' = failed \cup {t} /\ pc' = pc
      BY <3>1, <3>3
    <3> QED
      BY <3>2, <3>3
  <2>3. Goals' = Goals
    BY <1>u DEF Goals
  <2>4. \A u \in Goals : pc'[u] # 0
    <3>1. \A u \in Goals : u \in Task /\ pc[u] # 0
      BY <1>s, <1>m, Models, FinalTasks DEF TaskInv, Goals
    <3> QED
      BY <3>1, <1>t DEF Moves
  <2>5. main = "ok" => \A u \in Goals : pc'[u] = End
    BY <1>s, Models, FinalTasks DEF TaskInv, Goals, Moves
  <2>6. \A u \in Task : pc'[u] # 0 => Owner(u) \in model
    BY <1>s DEF TaskInv, Moves, MayStart
  <2> QED
    BY <1>u, <1>m, <2>1, <2>2, <2>3, <2>4, <2>5, <2>6 DEF TaskInv
<1>4. PassedInv'
  <2> SUFFICES ASSUME NEW u \in Task, NEW i \in 1 .. Len(Body(u))', NEW r, r = Body(u)'[i], i < pc'[u]
               PROVE  Happened(r)'
    BY DEF PassedInv
  <2>1. i \in 1 .. Len(Body(u)) /\ r = Body(u)[i]
    BY <1>b
  <2>2. CASE i < pc[u]
    <3>1. Happened(r)
      BY <2>1, <2>2, <1>s DEF PassedInv
    <3>2. r.op = "want" => r.tasks \subseteq Task
      BY <2>1, Bodies DEF BodyOK
    <3>3. \A v \in Task : pc[v] = End => pc'[v] = End
      BY DEF Moves
    <3> QED
      BY <3>1, <3>2, <3>3, HappenedStays
  <2>3. CASE ~(i < pc[u])
    <3>1. u = t /\ i = pc[t]
      BY <2>1, <2>3 DEF Moves
    <3>2. r = s /\ pc'[t] # pc[t]
      BY <2>1, <2>3, <3>1
    <3> QED
      BY <3>2
  <2> QED
    BY <2>2, <2>3
<1>5. StartInv'
  <2>1. {"setup_mgr", "ceph_mon", "key_glance", "glance_steps", "key_for_cinder_nova", "cinder_steps"} \subseteq Task
    BY TaskNames
  <2>2. pc'["setup_mgr"] # 0 => pc'["ceph_mon"] = End
    BY <2>1, <1>s DEF StartInv, MayStart, Moves
  <2>3. pc'["key_glance"] # 0 => pc'["glance_steps"] > 4
    <3>1. pc'["key_glance"] # 0 => pc["glance_steps"] > 4
      BY <2>1, <1>s DEF StartInv, MayStart, Moves
    <3>2. pc["glance_steps"] \in Nat /\ pc'["glance_steps"] \in Nat /\ pc["glance_steps"] <= pc'["glance_steps"]
      BY <2>1, <1>s DEF TaskInv, Moves
    <3> QED
      BY <3>1, <3>2
  <2>4. pc'["key_for_cinder_nova"] # 0 => pc'["cinder_steps"] # 0
    <3>1. pc'["key_for_cinder_nova"] # 0 => pc["cinder_steps"] # 0
      BY <2>1, <1>s DEF StartInv, MayStart, Moves
    <3>2. pc["cinder_steps"] \in Nat /\ pc'["cinder_steps"] \in Nat /\ pc["cinder_steps"] <= pc'["cinder_steps"]
      BY <2>1, <1>s DEF TaskInv, Moves
    <3> QED
      BY <3>1, <3>2
  <2> QED
    BY <2>2, <2>3, <2>4 DEF StartInv
<1> QED
  BY <1>1, <1>2, <1>3, <1>4, <1>5 DEF Structure

\* A failing call leaves its task at the step, or passes unseen as the one call of it.
LEMMA FailMoves ==
  ASSUME TaskInv, NEW t \in Task, Running(t), NEW s, s = Body(t)[pc[t]], s.op = "calls",
         NEW n \in Picks(s.calls), NEW i \in DOMAIN s.calls, NEW q, q => s.calls[i].quiet, Fail(t, q)
  PROVE  /\ Moves(t, {})
         /\ failed' = failed \/ (failed' = failed \cup {t} /\ pc' = pc)
         /\ pc'[t] # pc[t] => Happened(s)'
<1>1. pc[t] \in 1 .. Len(Body(t))
  BY MovesBy
<1>2. CASE q
  <2>1. pc' = Past(t, {}) /\ failed' = failed
    BY <1>2 DEF Fail
  <2>2. Len(s.calls) = 1 /\ DOMAIN s.calls = 1 .. 1 /\ i = 1
    BY <1>1, <1>2, Quiet, Bodies DEF LoneQuiet, BodyOK
  <2>3. \A j \in DOMAIN s.calls : s.calls[j].quiet
    BY <1>2, <2>2
  <2>4. Made(s.calls)'
    BY <2>3 DEF Made, Picks
  <2>5. Happened(s)'
    BY <2>4 DEF Happened
  <2> QED
    BY <2>1, <2>5, MovesBy
<1>3. CASE ~q
  BY <1>3, MovesBy DEF Fail
<1> QED
  BY <1>2, <1>3

LEMMA NothingStarts == MayStart({})
  BY DEF MayStart

\* The actions of a task.
LEMMA TaskStep ==
  ASSUME Structure, ContentCanBeMade, NEW t \in Task,
         WillNeed(t) \/ WantsStart(t) \/ WantsReturn(t) \/ Perform(t) \/ GiveUp(t) \/ Break(t)
  PROVE  Structure' /\ ContentCanBeMade' /\ Timely
<1>s. CaseInv /\ ComposeInv /\ TaskInv /\ PassedInv /\ StartInv
  BY DEF Structure
<1>r. Running(t)
  BY DEF WillNeed, WantsStart, WantsReturn, Perform, GiveUp, Break
<1>t. pc[t] \in 1 .. Len(Body(t))
  BY <1>s, <1>r, MovesBy
<1>b. breaks \in Nat
  BY <1>s, Models
<1>p. PICK s : s = Body(t)[pc[t]]
  OBVIOUS
<1>1. CASE WillNeed(t)
  <2>1. MayStart(s.tasks)
    BY <1>s, <1>t, <1>p, <1>1, MayStartNamed DEF WillNeed
  <2>2. Moves(t, s.tasks)
    BY <1>s, <1>r, <1>p, <1>1, MovesBy DEF WillNeed
  <2>3. Happened(s)'
    BY <1>p, <1>1 DEF WillNeed, Happened
  <2>4. UNCHANGED <<unchanged, failed, world, unmet, breaks>>
    BY <1>1 DEF WillNeed
  <2>5. Structure'
    BY <1>r, <1>b, <1>p, <2>1, <2>2, <2>3, <2>4, StepKeeps
  <2> QED
    BY <2>4, <2>5 DEF Timely, ContentCanBeMade
<1>2. CASE WantsStart(t)
  <2>1. MayStart(s.tasks)
    BY <1>s, <1>t, <1>p, <1>2, MayStartNamed DEF WantsStart
  <2>2. Moves(t, s.tasks)
    BY <1>s, <1>r, <1>p, <1>2, MovesBy DEF WantsStart
  <2>3. pc'[t] = pc[t]
    BY <1>2 DEF WantsStart, Past
  <2>4. UNCHANGED <<unchanged, failed, world, unmet, breaks>>
    BY <1>2 DEF WantsStart
  <2>5. Structure'
    BY <1>r, <1>b, <1>p, <2>1, <2>2, <2>3, <2>4, StepKeeps
  <2> QED
    BY <2>4, <2>5 DEF Timely, ContentCanBeMade
<1>3. CASE WantsReturn(t)
  <2>0. UNCHANGED <<unchanged, world, unmet, breaks>>
    BY <1>3 DEF WantsReturn
  <2>1. s.op = "want" /\ \A u \in s.tasks : pc[u] = End \/ u \in failed
    BY <1>3, <1>p DEF WantsReturn, Ended
  <2>2. UNCHANGED unchanged /\ world \subseteq world' /\ breaks' \in 0 .. breaks
    BY <2>0, <1>b
  <2>3. ASSUME s.tasks \cap failed = {}
        PROVE  Structure'
    <3>1. pc' = Past(t, {}) /\ failed' = failed /\ \A u \in s.tasks : pc[u] = End
      BY <1>3, <1>p, <2>1, <2>3 DEF WantsReturn
    <3>2. Moves(t, {})
      BY <1>s, <1>r, <3>1, MovesBy
    <3>3. s.tasks \subseteq Task
      BY <1>p, <1>t, <2>1, Bodies DEF BodyOK
    <3>4. \A u \in s.tasks : pc'[u] = End
      BY <3>1, <3>2, <3>3 DEF Moves
    <3>5. Happened(s)'
      BY <2>1, <3>4 DEF Happened
    <3> QED
      BY <1>r, <1>p, <2>2, <3>1, <3>2, <3>5, NothingStarts, StepKeeps
  <2>4. ASSUME s.tasks \cap failed # {}
        PROVE  Structure'
    <3>1. pc' = pc /\ failed' = failed \cup {t}
      BY <1>3, <1>p, <2>4 DEF WantsReturn
    <3>2. Moves(t, {})
      BY <1>s, <1>r, <3>1, MovesBy
    <3> QED
      BY <1>r, <1>p, <2>2, <3>1, <3>2, NothingStarts, StepKeeps
  <2>5. Structure'
    BY <2>3, <2>4
  <2> QED
    BY <2>0, <2>5 DEF Timely, ContentCanBeMade
<1>4. CASE Perform(t)
  <2>1. /\ UNCHANGED <<unchanged, failed, unmet, breaks>> /\ s.op = "calls" /\ pc' = Past(t, {})
        /\ \E n \in Picks(s.calls) : world' = After(s.calls, n, Len(s.calls))
    BY <1>4, <1>p DEF Perform
  <2>2. PICK n \in Picks(s.calls) : world' = After(s.calls, n, Len(s.calls))
    BY <2>1
  <2>3. DOMAIN s.calls = 1 .. Len(s.calls)
    BY <1>p, <1>t, <2>1, Bodies DEF BodyOK
  <2>4. world \subseteq world' /\ \A j \in DOMAIN s.calls : Effect(s.calls[j], n) \subseteq world'
    BY <2>2, <2>3 DEF After
  <2>5. Made(s.calls)'
    BY <2>4 DEF Made, Picks, Effect, Targets, Content
  <2>6. Happened(s)'
    BY <2>1, <2>5 DEF Happened
  <2>7. Moves(t, {})
    BY <1>s, <1>r, <2>1, MovesBy
  <2>8. Structure'
    BY <1>r, <1>b, <1>p, <2>1, <2>4, <2>6, <2>7, NothingStarts, StepKeeps
  <2> QED
    BY <2>1, <2>8 DEF Timely, ContentCanBeMade
<1>5. CASE GiveUp(t)
  <2>1. UNCHANGED <<unchanged, breaks>> /\ s.op = "calls"
    BY <1>5, <1>p DEF GiveUp
  <2>2. PICK n \in Picks(s.calls), i \in DOMAIN s.calls :
          /\ world' = After(s.calls, n, i - 1)
          /\ unmet' = unmet \cup ({s.calls[i].do} \X Lacks(s.calls, n, i))
          /\ Fail(t, s.calls[i].quiet /\ ContentIsThere(s.calls[i], n))
    BY <1>5, <1>p DEF GiveUp
  <2>3. PICK q : q <=> s.calls[i].quiet /\ ContentIsThere(s.calls[i], n)
    OBVIOUS
  <2>4. Fail(t, q)
    BY <2>2, <2>3 DEF Fail
  <2>5. /\ Moves(t, {})
        /\ failed' = failed \/ (failed' = failed \cup {t} /\ pc' = pc)
        /\ pc'[t] # pc[t] => Happened(s)'
    BY <1>s, <1>r, <1>p, <2>1, <2>3, <2>4, FailMoves
  <2>6. world \subseteq world'
    BY <2>2 DEF After
  <2>7. Structure'
    BY <1>r, <1>b, <1>p, <2>1, <2>5, <2>6, NothingStarts, StepKeeps
  <2>8. AllFine(s.calls)
    BY <1>s, <1>t, <1>p, <2>1, CallsFine
  <2>9. Fine(s.calls, n, i)
    BY <2>8 DEF AllFine
  <2>10. \A y \in unmet' : y \in unmet \/ (MayLack(y[1]) /\ y[2] = "needs")
    <3>1. Lacks(s.calls, n, i) \subseteq {"needs"}
      BY <2>9 DEF Fine, Lacks
    <3>2. MayLack(s.calls[i].do) \/ Lacks(s.calls, n, i) = {}
      BY <2>9 DEF Fine, Lacks
    <3> QED
      BY <2>2, <3>1, <3>2
  <2>11. ContentCanBeMade' /\ Timely
    BY <2>10 DEF Timely, ContentCanBeMade
  <2> QED
    BY <2>7, <2>11
<1>6. CASE Break(t)
  <2>1. UNCHANGED <<unchanged, unmet>> /\ s.op = "calls" /\ breaks' = breaks - 1 /\ breaks > 0
    BY <1>6, <1>p DEF Break
  <2>2. PICK n \in Picks(s.calls), i \in DOMAIN s.calls :
          /\ world' \in {After(s.calls, n, i - 1), After(s.calls, n, i)}
          /\ Fail(t, s.calls[i].quiet)
    BY <1>6, <1>p DEF Break
  <2>3. PICK q : q = s.calls[i].quiet
    OBVIOUS
  <2>4. /\ Moves(t, {})
        /\ failed' = failed \/ (failed' = failed \cup {t} /\ pc' = pc)
        /\ pc'[t] # pc[t] => Happened(s)'
    BY <1>s, <1>r, <1>p, <2>1, <2>2, <2>3, FailMoves
  <2>5. world \subseteq world' /\ breaks' \in 0 .. breaks
    BY <1>b, <2>1, <2>2 DEF After
  <2>6. Structure'
    BY <1>r, <1>p, <2>1, <2>4, <2>5, NothingStarts, StepKeeps
  <2> QED
    BY <2>1, <2>6 DEF Timely, ContentCanBeMade
<1> QED
  BY <1>1, <1>2, <1>3, <1>4, <1>5, <1>6

\* Nothing has been composed, started or noted.
LEMMA InitHolds == Init => IInv
<1> SUFFICES ASSUME Init
             PROVE  IInv
  OBVIOUS
<1>1. CaseInv
  BY BoundsAssumption DEF Init, CaseInv
<1>2. ComposeInv
  BY DEF Init, ComposeInv
<1>3. TaskInv
  BY DEF Init, TaskInv
<1>4. PassedInv
  BY DEF Init, PassedInv
<1>5. StartInv
  BY TaskNames DEF Init, StartInv
<1>6. ContentCanBeMade
  BY DEF Init, ContentCanBeMade
<1> QED
  BY <1>1, <1>2, <1>3, <1>4, <1>5, <1>6 DEF IInv

\* While the components compose no task is started.
LEMMA ComposeStep ==
  ASSUME Structure, Compose
  PROVE  Structure'
<1>s. CaseInv /\ ComposeInv /\ TaskInv /\ PassedInv /\ StartInv
  BY DEF Structure
<1>u. UNCHANGED <<group, model, slow, main, sent, pc, failed, breaks>> /\ main = "compose" /\ composed' = composed + 1
  BY DEF Compose
<1>k. breaks' \in 0 .. breaks
  BY <1>s, <1>u, Models
<1>1. CaseInv'
  BY <1>s, <1>u, <1>k, CaseStays
<1>2. ComposeInv'
  <2>1. composed \in 0 .. 15
    BY <1>s DEF Compose, ComposeInv, Creation
  <2>2. PICK c : c = Composition(composed + 1)
    OBVIOUS
  <2>3. /\ keys' = [n \in Node |-> keys[n] \cup {k[2] : k \in {x \in c.keys : At(n) \cap x[1] # {}}}]
        /\ peers' = [n \in Node |-> peers[n] \cup {p[2] : p \in {x \in c.peers : At(n) \cap x[1] # {}}}]
        /\ users' = users \cup c.users
        /\ schemas' = schemas \cup c.schemas
    BY <2>2 DEF Compose
  <2>4. ASSUME NEW d, Spread(d)
        PROVE  Spread(d)'
    BY <1>u, <2>3, <2>4, SpreadStays
  <2>5. Spread(c)'
    <3>1. \A n \in Node : At(n)' = At(n)
      BY <1>u DEF At, ControllerServices, WorkerServices
    <3> QED
      BY <2>3, <3>1 DEF Spread
  <2>6. ASSUME NEW i \in 1 .. composed + 1
        PROVE  Spread(Composition(i))'
    <3>1. PICK d : d = Composition(i)
      OBVIOUS
    <3>2. Spread(d)'
      <4>1. CASE i = composed + 1
        BY <2>2, <2>5, <3>1, <4>1
      <4>2. CASE i \in 1 .. composed
        BY <1>s, <2>4, <3>1, <4>2 DEF ComposeInv
      <4> QED
        BY <2>1, <4>1, <4>2
    <3> QED
      BY <1>u, <3>1, <3>2, CompositionStays
  <2>7. \A n \in Node : sent'[n] = NotSent
    BY <1>s, <1>u DEF ComposeInv
  <2> QED
    BY <1>u, <2>1, <2>6, <2>7 DEF ComposeInv
<1>z. pc' = pc /\ pc \in [Task -> Nat] /\ \A t \in Task : pc[t] = 0
  BY <1>s, <1>u DEF TaskInv
<1>3. TaskInv'
  BY <1>s, <1>u, <1>z DEF TaskInv
<1>4. PassedInv'
  BY <1>z DEF PassedInv
<1>5. StartInv'
  BY <1>s, <1>z DEF StartInv
<1> QED
  BY <1>1, <1>2, <1>3, <1>4, <1>5 DEF Structure

\* The goals are started together.
LEMMA SetIdentityStep ==
  ASSUME Structure, SetIdentity
  PROVE  Structure'
<1>s. CaseInv /\ ComposeInv /\ TaskInv /\ PassedInv /\ StartInv
  BY DEF Structure
<1>u. /\ UNCHANGED <<group, model, slow, composed, keys, peers, users, schemas, failed, world, unmet, breaks>>
      /\ main = "compose" /\ main' = "wait" /\ composed = 16
  BY DEF SetIdentity, Creation
<1>p. pc' = [t \in Task |-> IF t \in Goals THEN 1 ELSE 0]
  BY DEF SetIdentity
<1>g. Goals' = Goals /\ Goals \subseteq Task /\ \A t \in Goals : Owner(t) \in model
  BY <1>s, <1>u, Models, FinalTasks DEF Goals
<1>k. breaks' \in 0 .. breaks
  BY <1>s, <1>u, Models
<1>1. CaseInv'
  BY <1>s, <1>u, <1>k, CaseStays
<1>2. ComposeInv'
  <2>1. ASSUME NEW i \in 1 .. composed
        PROVE  Spread(Composition(i))'
    <3>1. PICK c : c = Composition(i)
      OBVIOUS
    <3>2. Spread(c)'
      BY <1>s, <1>u, <3>1, SpreadStays DEF ComposeInv
    <3> QED
      BY <1>u, <3>1, <3>2, CompositionStays
  <2>2. \A n \in Node : sent'[n] = [keys |-> keys[n], peers |-> peers[n]]
    BY DEF SetIdentity
  <2> QED
    BY <1>u, <2>1, <2>2 DEF ComposeInv
<1>3. TaskInv'
  <2>1. pc' \in [Task -> Nat] /\ \A t \in Task : pc'[t] # 0 => pc'[t] = 1 /\ t \in Goals
    BY <1>p
  <2>2. \A t \in Task : 1 \in 1 .. Len(Body(t))'
    <3>1. \A t \in Task : Len(Body(t)) \in 1 .. 9
      BY Bodies DEF BodyOK
    <3>2. \A t \in Task : Body(t)' = Body(t)
      BY <1>u, BodiesStay
    <3> QED
      BY <3>1, <3>2
  <2>3. failed' = {}
    BY <1>s, <1>u DEF TaskInv
  <2> QED
    BY <1>u, <1>p, <1>g, <2>1, <2>2, <2>3 DEF TaskInv
<1>4. PassedInv'
  BY <1>p DEF PassedInv
<1>5. StartInv'
  <2>1. \A c \in Component : FinalTask[c] \notin {"setup_mgr", "key_glance", "key_for_cinder_nova"}
    BY ComponentNames DEF FinalTask
  <2>2. \A t \in Goals : t \notin {"setup_mgr", "key_glance", "key_for_cinder_nova"}
    BY <1>s, <2>1, Models DEF Goals
  <2> QED
    BY <1>p, <2>2, TaskNames DEF StartInv
<1> QED
  BY <1>1, <1>2, <1>3, <1>4, <1>5 DEF Structure

\* The main thread looks at the goals and changes nothing else.
LEMMA GoalsEndStep ==
  ASSUME Structure, GoalsEnd
  PROVE  Structure'
<1>s. CaseInv /\ ComposeInv /\ TaskInv /\ PassedInv /\ StartInv
  BY DEF Structure
<1>u. /\ UNCHANGED <<group, model, slow, composed, keys, peers, sent, users, schemas, pc, failed, world, unmet, breaks>>
      /\ main = "wait" /\ main' \in {"ok", "failed"}
      /\ main' = "ok" => \A t \in Goals : pc[t] = End
  BY DEF GoalsEnd, Ended
<1>k. breaks' \in 0 .. breaks
  BY <1>s, <1>u, Models
<1>1. CaseInv'
  BY <1>s, <1>u, <1>k, CaseStays
<1>2. ComposeInv'
  BY <1>s, <1>u, ComposedStays
<1>b. \A t \in Task : Body(t)' = Body(t)
  BY <1>u, BodiesStay
<1>3. TaskInv'
  <2>1. Goals' = Goals
    BY <1>u DEF Goals
  <2> QED
    BY <1>s, <1>u, <1>b, <2>1 DEF TaskInv
<1>4. PassedInv'
  <2> SUFFICES ASSUME NEW u \in Task, NEW i \in 1 .. Len(Body(u))', NEW r, r = Body(u)'[i], i < pc'[u]
               PROVE  Happened(r)'
    BY DEF PassedInv
  <2>1. i \in 1 .. Len(Body(u)) /\ r = Body(u)[i] /\ i < pc[u]
    BY <1>b, <1>u
  <2>2. Happened(r)
    BY <2>1, <1>s DEF PassedInv
  <2>3. r.op = "want" => r.tasks \subseteq Task
    BY <2>1, Bodies DEF BodyOK
  <2> QED
    BY <1>u, <2>2, <2>3, HappenedStays
<1>5. StartInv'
  BY <1>s, <1>u DEF StartInv
<1> QED
  BY <1>1, <1>2, <1>3, <1>4, <1>5 DEF Structure

LEMMA StutterKeeps ==
  ASSUME Structure, UNCHANGED vars
  PROVE  Structure'
<1>s. CaseInv /\ ComposeInv /\ TaskInv /\ PassedInv /\ StartInv
  BY DEF Structure
<1>u. UNCHANGED <<group, model, slow, main, composed, keys, peers, sent, users, schemas, pc, failed, world, breaks>>
  BY DEF vars
<1>k. breaks' \in 0 .. breaks
  BY <1>s, <1>u, Models
<1>1. CaseInv'
  BY <1>s, <1>u, <1>k, CaseStays
<1>2. ComposeInv'
  <2>1. ASSUME NEW i \in 1 .. composed
        PROVE  Spread(Composition(i))'
    <3>1. PICK c : c = Composition(i)
      OBVIOUS
    <3>2. Spread(c)'
      BY <1>s, <1>u, <3>1, SpreadStays DEF ComposeInv
    <3> QED
      BY <1>u, <3>1, <3>2, CompositionStays
  <2> QED
    BY <1>s, <1>u, <2>1 DEF ComposeInv
<1>b. \A t \in Task : Body(t)' = Body(t)
  BY <1>u, BodiesStay
<1>3. TaskInv'
  <2>1. Goals' = Goals
    BY <1>u DEF Goals
  <2> QED
    BY <1>s, <1>u, <1>b, <2>1 DEF TaskInv
<1>4. PassedInv'
  <2> SUFFICES ASSUME NEW u \in Task, NEW i \in 1 .. Len(Body(u))', NEW r, r = Body(u)'[i], i < pc'[u]
               PROVE  Happened(r)'
    BY DEF PassedInv
  <2>1. i \in 1 .. Len(Body(u)) /\ r = Body(u)[i] /\ i < pc[u]
    BY <1>b, <1>u
  <2>2. Happened(r)
    BY <2>1, <1>s DEF PassedInv
  <2>3. r.op = "want" => r.tasks \subseteq Task
    BY <2>1, Bodies DEF BodyOK
  <2> QED
    BY <1>u, <2>2, <2>3, HappenedStays
<1>5. StartInv'
  BY <1>s, <1>u DEF StartInv
<1> QED
  BY <1>1, <1>2, <1>3, <1>4, <1>5 DEF Structure

\* The invariant is inductive, and what a step notes of missing things is timely.
LEMMA NextKeeps == IInv /\ [Next]_vars => IInv' /\ Timely
<1> SUFFICES ASSUME IInv, [Next]_vars
             PROVE  IInv' /\ Timely
  OBVIOUS
<1>s. Structure /\ ContentCanBeMade
  BY DEF IInv, Structure
<1>1. CASE Compose
  BY <1>s, <1>1, ComposeStep DEF Structure, Timely, ContentCanBeMade, Compose, IInv
<1>2. CASE SetIdentity
  BY <1>s, <1>2, SetIdentityStep DEF Structure, Timely, ContentCanBeMade, SetIdentity, IInv
<1>3. CASE GoalsEnd
  BY <1>s, <1>3, GoalsEndStep DEF Structure, Timely, ContentCanBeMade, GoalsEnd, IInv
<1>4. CASE \E t \in Turns : WillNeed(t) \/ WantsStart(t) \/ WantsReturn(t) \/ Perform(t) \/ GiveUp(t) \/ Break(t)
  <2>1. PICK t \in Task : WillNeed(t) \/ WantsStart(t) \/ WantsReturn(t) \/ Perform(t) \/ GiveUp(t) \/ Break(t)
    BY <1>4, TurnsAreTasks DEF IInv
  <2>2. Structure' /\ ContentCanBeMade' /\ Timely
    BY <1>s, <2>1, TaskStep
  <2> QED
    BY <2>2 DEF Structure, IInv
<1>5. CASE UNCHANGED vars
  BY <1>s, <1>5, StutterKeeps DEF Structure, Timely, ContentCanBeMade, vars, IInv
<1> QED
  BY <1>1, <1>2, <1>3, <1>4, <1>5 DEF Next

-----------------------------------------------------------------------------
(* What holds when the main thread says that all is done.                  *)

\* The goals waited, directly or through others, for all that was started.
LEMMA AllEnd ==
  ASSUME CaseInv, TaskInv, PassedInv, StartInv, main = "ok"
  PROVE  /\ \A c \in model : \A t \in TasksOf[c] \ {"key_glance", "key_for_cinder_nova"} : pc[t] = End
         /\ \A t \in Task : pc[t] # 0 => pc[t] = End
<1>f. \A c \in model : pc[FinalTask[c]] = End
  BY DEF TaskInv, Goals
<1>p. \A x : x = End => x > 1 /\ x > 2 /\ x > 4 /\ x > 5 /\ x > 6
  BY DEF End
<1>1. ASSUME "haproxy" \in model
      PROVE  pc["haproxy_steps"] = End /\ pc["selinux"] = End
  <2>1. pc["haproxy_steps"] = End
    BY <1>1, <1>f DEF FinalTask
  <2>2. pc["selinux"] = End
    <3>1. pc["haproxy_steps"] > 1
      BY <2>1, <1>p
    <3> QED
      BY <3>1, WaitTable
  <2> QED
    BY <2>1, <2>2
<1>2. ASSUME "memcached" \in model
      PROVE  pc["memcached_steps"] = End
  BY <1>2, <1>f DEF FinalTask
<1>3. ASSUME "mariadb" \in model
      PROVE  pc["mariadb_steps"] = End
  BY <1>3, <1>f DEF FinalTask
<1>4. ASSUME "rabbitmq" \in model
      PROVE  pc["rabbit_steps"] = End
  BY <1>4, <1>f DEF FinalTask
<1>5. ASSUME "osclient" \in model
      PROVE  pc["osclient_steps"] = End
  BY <1>5, <1>f DEF FinalTask
<1>6. ASSUME "keystone" \in model
      PROVE  /\ pc["keystone_ready"] = End /\ pc["keystone_users"] = End /\ pc["keystone_endpoints"] = End
             /\ pc["cfg_keystone_steps"] = End /\ pc["cfg_httpd"] = End /\ pc["keystone_db"] = End
             /\ pc["keystone_fernet"] = End
  <2>1. pc["keystone_ready"] = End
    BY <1>6, <1>f DEF FinalTask
  <2>2. pc["keystone_users"] = End /\ pc["keystone_endpoints"] = End
    <3>1. pc["keystone_ready"] > 1
      BY <2>1, <1>p
    <3> QED
      BY <3>1, WaitTable
  <2>3. pc["cfg_keystone_steps"] = End /\ pc["cfg_httpd"] = End
    <3>1. pc["keystone_users"] > 1
      BY <2>2, <1>p
    <3> QED
      BY <3>1, WaitTable
  <2>4. pc["keystone_db"] = End /\ pc["keystone_fernet"] = End
    <3>1. pc["cfg_keystone_steps"] > 2
      BY <2>3, <1>p
    <3> QED
      BY <3>1, WaitTable
  <2> QED
    BY <2>1, <2>2, <2>3, <2>4
<1>7. ASSUME "ceph" \in model
      PROVE  /\ pc["ceph_steps"] = End /\ pc["setup_mgr"] = End /\ pc["handle_pools"] = End
             /\ pc["ceph_mon"] = End /\ pc["hostname"] = End /\ pc["handle_osds"] = End
  <2>1. pc["ceph_steps"] = End
    BY <1>7, <1>f DEF FinalTask
  <2>2. pc["setup_mgr"] = End /\ pc["handle_pools"] = End
    <3>1. pc["ceph_steps"] > 5
      BY <2>1, <1>p
    <3> QED
      BY <3>1, WaitTable
  <2>3. pc["ceph_mon"] = End
    <3>1. pc["ceph_steps"] > 2
      BY <2>1, <1>p
    <3> QED
      BY <3>1, WaitTable
  <2>4. pc["hostname"] = End
    <3>1. pc["ceph_mon"] > 1
      BY <2>3, <1>p
    <3> QED
      BY <3>1, WaitTable
  <2>5. pc["handle_osds"] = End
    <3>1. pc["handle_pools"] > 1
      BY <2>2, <1>p
    <3> QED
      BY <3>1, WaitTable
  <2> QED
    BY <2>1, <2>2, <2>3, <2>4, <2>5
<1>8. ASSUME "glance" \in model
      PROVE  pc["glance_steps"] = End /\ pc["key_glance"] = End
  <2>1. pc["glance_steps"] = End
    BY <1>8, <1>f DEF FinalTask
  <2>2. pc["key_glance"] = End
    <3>1. pc["glance_steps"] > 5
      BY <2>1, <1>p
    <3> QED
      BY <3>1, WaitTable
  <2> QED
    BY <2>1, <2>2
<1>9. ASSUME "cinder" \in model
      PROVE  pc["cinder_steps"] = End /\ pc["key_for_cinder_nova"] = End
  <2>1. pc["cinder_steps"] = End
    BY <1>9, <1>f DEF FinalTask
  <2>2. pc["key_for_cinder_nova"] = End
    <3>1. pc["cinder_steps"] > 4
      BY <2>1, <1>p
    <3> QED
      BY <3>1, WaitTable
  <2> QED
    BY <2>1, <2>2
<1>10. ASSUME "swift" \in model
      PROVE  pc["swift_steps"] = End
  BY <1>10, <1>f DEF FinalTask
<1>11. ASSUME "libvirt" \in model
      PROVE  pc["libvirt"] = End
  BY <1>11, <1>f DEF FinalTask
<1>12. ASSUME "neutron" \in model
      PROVE  pc["neutron_steps"] = End /\ pc["net_config"] = End
  <2>1. pc["neutron_steps"] = End
    BY <1>12, <1>f DEF FinalTask
  <2>2. pc["net_config"] = End
    <3>1. pc["neutron_steps"] > 5
      BY <2>1, <1>p
    <3> QED
      BY <3>1, WaitTable
  <2> QED
    BY <2>1, <2>2
<1>13. ASSUME "novnc" \in model
      PROVE  pc["have_content"] = End
  BY <1>13, <1>f DEF FinalTask
<1>14. ASSUME "placement" \in model
      PROVE  pc["placement_steps"] = End
  BY <1>14, <1>f DEF FinalTask
<1>15. ASSUME "nova" \in model
      PROVE  pc["nova_steps"] = End
  BY <1>15, <1>f DEF FinalTask
<1>16. ASSUME "tempest" \in model
      PROVE  pc["tempest_steps"] = End /\ pc["network_id"] = End /\ pc["nova_flavors"] = End
  <2>1. pc["tempest_steps"] = End
    BY <1>16, <1>f DEF FinalTask
  <2>2. pc["network_id"] = End
    <3>1. pc["tempest_steps"] > 4
      BY <2>1, <1>p
    <3> QED
      BY <3>1, WaitTable
  <2>3. pc["nova_flavors"] = End
    <3>1. pc["tempest_steps"] > 6
      BY <2>1, <1>p
    <3> QED
      BY <3>1, WaitTable
  <2> QED
    BY <2>1, <2>2, <2>3
<1>17. \A c \in model : \A t \in TasksOf[c] \ {"key_glance", "key_for_cinder_nova"} : pc[t] = End
  <2> SUFFICES ASSUME NEW c \in model
               PROVE  \A t \in TasksOf[c] \ {"key_glance", "key_for_cinder_nova"} : pc[t] = End
    OBVIOUS
  <2>1. c \in Component
    BY Models
  <2>2. CASE c = "haproxy"
    BY <1>1, <2>2 DEF TasksOf, Component, Services
  <2>3. CASE c = "memcached"
    BY <1>2, <2>3 DEF TasksOf, Component, Services
  <2>4. CASE c = "mariadb"
    BY <1>3, <2>4 DEF TasksOf, Component, Services
  <2>5. CASE c = "rabbitmq"
    BY <1>4, <2>5 DEF TasksOf, Component, Services
  <2>6. CASE c = "osclient"
    BY <1>5, <2>6 DEF TasksOf, Component, Services
  <2>7. CASE c = "keystone"
    BY <1>6, <2>7 DEF TasksOf, Component, Services
  <2>8. CASE c = "ceph"
    BY <1>7, <2>8 DEF TasksOf, Component, Services
  <2>9. CASE c = "glance"
    BY <1>8, <2>9 DEF TasksOf, Component, Services
  <2>10. CASE c = "cinder"
    BY <1>9, <2>10 DEF TasksOf, Component, Services
  <2>11. CASE c = "swift"
    BY <1>10, <2>11 DEF TasksOf, Component, Services
  <2>12. CASE c = "libvirt"
    BY <1>11, <2>12 DEF TasksOf, Component, Services
  <2>13. CASE c = "neutron"
    BY <1>12, <2>13 DEF TasksOf, Component, Services
  <2>14. CASE c = "novnc"
    BY <1>13, <2>14 DEF TasksOf, Component, Services
  <2>15. CASE c = "placement"
    BY <1>14, <2>15 DEF TasksOf, Component, Services
  <2>16. CASE c = "nova"
    BY <1>15, <2>16 DEF TasksOf, Component, Services
  <2>17. CASE c = "tempest"
    BY <1>16, <2>17 DEF TasksOf, Component, Services
  <2> QED
    BY <2>1, <2>2, <2>3, <2>4, <2>5, <2>6, <2>7, <2>8, <2>9, <2>10, <2>11, <2>12, <2>13, <2>14, <2>15, <2>16, <2>17,
       ComponentNames
<1>18. pc["key_glance"] # 0 => pc["key_glance"] = End
  <2>1. ASSUME pc["key_glance"] # 0
        PROVE  pc["glance_steps"] # 0
    BY <2>1 DEF StartInv
  <2>2. ASSUME pc["key_glance"] # 0
        PROVE  "glance" \in model
    BY <2>1, <2>2, TaskNames, OwnerTable DEF TaskInv
  <2> QED
    BY <2>2, <1>8
<1>19. pc["key_for_cinder_nova"] # 0 => pc["key_for_cinder_nova"] = End
  <2>1. ASSUME pc["key_for_cinder_nova"] # 0
        PROVE  "cinder" \in model
    BY <2>1, TaskNames, OwnerTable DEF TaskInv, StartInv
  <2> QED
    BY <2>1, <1>9
<1>20. ASSUME NEW t \in Task, pc[t] # 0
       PROVE  pc[t] = End
  <2>1. PICK c \in Component : t \in TasksOf[c]
    BY DEF Task
  <2>2. c \in model
    BY <1>20, <2>1, OwnerOf DEF TaskInv
  <2> QED
    BY <1>17, <1>18, <1>19, <1>20, <2>1, <2>2
<1> QED
  BY <1>17, <1>20

\* The schemas that the components registered.
LEMMA SchemasThere ==
  ASSUME CaseInv, ComposeInv, main # "compose"
  PROVE  /\ "keystone" \in model => Schema("keystone", "keystone") \in schemas
         /\ "glance" \in model => Schema("glance", "glance") \in schemas
         /\ "cinder" \in model => Schema("cinder", "cinder") \in schemas
         /\ "neutron" \in model => Schema("neutron", "neutron") \in schemas
         /\ "placement" \in model => Schema("placement", "placement") \in schemas
         /\ "nova" \in model => Schema("nova", "nova") \in schemas /\ Schema("nova_api", "nova") \in schemas
<1>1. "keystone" \in model => Schema("keystone", "keystone") \in schemas
  BY Composed DEF Spread, ComposeOf, KeystoneCompose
<1>2. "glance" \in model => Schema("glance", "glance") \in schemas
  BY Composed DEF Spread, ComposeOf, GlanceCompose
<1>3. "cinder" \in model => Schema("cinder", "cinder") \in schemas
  BY Composed DEF Spread, ComposeOf, CinderCompose
<1>4. "neutron" \in model => Schema("neutron", "neutron") \in schemas
  BY Composed DEF Spread, ComposeOf, NeutronCompose
<1>5. "placement" \in model => Schema("placement", "placement") \in schemas
  BY Composed DEF Spread, ComposeOf, PlacementCompose
<1>6. "nova" \in model => Schema("nova", "nova") \in schemas /\ Schema("nova_api", "nova") \in schemas
  BY Composed DEF Spread, ComposeOf, NovaCompose
<1> QED
  BY <1>1, <1>2, <1>3, <1>4, <1>5, <1>6

\* What a use expects of other components.
LEMMA Expected ==
  /\ \A u : AuthAs(u).expects = User(u)
  /\ \A s, u : Db(s, u).expects = Schema(s, u)
  /\ Queue.expects = <<>> /\ Secret.expects = <<>>
  /\ \A p : Peer(p).expects = <<>>
  /\ \A s, p : KeyUse(s, p).expects = <<>>
  BY DEF AuthAs, Db, Queue, Secret, Peer, KeyUse, NoUse

\* The users and schemas that the content of a component names are there.
Met(c) == \A n \in Node : \A u \in Uses(c, n) : u.expects \in world \cup {<<>>}

\* One case for each component: its users come with keystone_users, its schemas with mariadb_steps.
LEMMA ExpectationsMet ==
  ASSUME CaseInv, ComposeInv, TaskInv, PassedInv, StartInv, main = "ok", NEW c \in model
  PROVE  Met(c)
<1>m. main # "compose"
  OBVIOUS
<1>h. group \in [Node -> Group]
  BY Models
<1>d. Dependencies[c] \subseteq model /\ c \in Component
  BY Models
<1>1. "keystone" \in model => users \subseteq world
  <2>1. ASSUME "keystone" \in model
        PROVE  pc["keystone_users"] > 2
    <3>1. pc["keystone_users"] = End
      BY <2>1, AllEnd DEF TasksOf, Component, Services
    <3> QED
      BY <3>1 DEF End
  <2> QED
    BY <1>h, <2>1, KeystoneUsersBrings
<1>2. "mariadb" \in model => schemas \subseteq world
  <2>1. ASSUME "mariadb" \in model
        PROVE  pc["mariadb_steps"] > 1
    <3>1. pc["mariadb_steps"] = End
      BY <2>1, AllEnd DEF TasksOf, Component, Services
    <3> QED
      BY <3>1 DEF End
  <2> QED
    BY <1>h, <2>1, MariadbStepsBrings
<1>3. CASE c = "mariadb"
  BY <1>3, Expected DEF Met, Uses, MariadbUses
<1>4. CASE c = "rabbitmq"
  BY <1>4, Expected DEF Met, Uses, RabbitUses
<1>5. CASE c = "keystone"
  <2>1. "mariadb" \in model
    BY <1>5, <1>d, DependencyTable
  <2>2. {Schema("keystone", "keystone")} \subseteq world
    BY <1>m, <1>5, <1>2, <2>1, SchemasThere
  <2> QED
    BY <1>5, <2>2, Expected DEF Met, Uses, KeystoneUses
<1>6. CASE c = "glance"
  <2>1. "keystone" \in model /\ "mariadb" \in model
    BY <1>6, <1>d, DependencyTable
  <2>2. {User("glance")} \subseteq world
    BY <1>m, <1>6, <1>1, <2>1, UsersThere
  <2>3. {Schema("glance", "glance")} \subseteq world
    BY <1>m, <1>6, <1>2, <2>1, SchemasThere
  <2> QED
    BY <1>6, <2>2, <2>3, Expected DEF Met, Uses, GlanceUses
<1>7. CASE c = "cinder"
  <2>1. "keystone" \in model /\ "mariadb" \in model
    BY <1>7, <1>d, DependencyTable
  <2>2. {User("cinder")} \subseteq world
    BY <1>m, <1>7, <1>1, <2>1, UsersThere
  <2>3. {Schema("cinder", "cinder")} \subseteq world
    BY <1>m, <1>7, <1>2, <2>1, SchemasThere
  <2> QED
    BY <1>7, <2>2, <2>3, Expected DEF Met, Uses, CinderUses
<1>8. CASE c = "swift"
  <2>1. "keystone" \in model
    BY <1>8, <1>d, DependencyTable
  <2>2. {User("swift")} \subseteq world
    BY <1>m, <1>8, <1>1, <2>1, UsersThere
  <2> QED
    BY <1>8, <2>2, Expected DEF Met, Uses, SwiftUses
<1>9. CASE c = "neutron"
  <2>1. "keystone" \in model /\ "mariadb" \in model
    BY <1>9, <1>d, DependencyTable
  <2>2. {User("neutron"), User("nova_for_neutron")} \subseteq world
    BY <1>m, <1>9, <1>1, <2>1, UsersThere
  <2>3. {Schema("neutron", "neutron")} \subseteq world
    BY <1>m, <1>9, <1>2, <2>1, SchemasThere
  <2> QED
    BY <1>9, <2>2, <2>3, Expected DEF Met, Uses, NeutronUses
<1>10. CASE c = "placement"
  <2>1. "keystone" \in model /\ "mariadb" \in model
    BY <1>10, <1>d, DependencyTable
  <2>2. {User("placement")} \subseteq world
    BY <1>m, <1>10, <1>1, <2>1, UsersThere
  <2>3. {Schema("placement", "placement")} \subseteq world
    BY <1>m, <1>10, <1>2, <2>1, SchemasThere
  <2> QED
    BY <1>10, <2>2, <2>3, Expected DEF Met, Uses, PlacementUses
<1>11. CASE c = "nova"
  <2>1. "keystone" \in model /\ "mariadb" \in model
    BY <1>11, <1>d, DependencyTable
  <2>2. {User("nova"), User("placement"), User("neutron_for_nova")} \subseteq world
    BY <1>m, <1>11, <1>1, <2>1, UsersThere
  <2>3. {Schema("nova", "nova"), Schema("nova_api", "nova")} \subseteq world
    BY <1>m, <1>11, <1>2, <2>1, SchemasThere
  <2> QED
    BY <1>11, <2>2, <2>3, Expected DEF Met, Uses, NovaUses
<1>12. CASE c \notin Readers
  BY <1>12 DEF Met, Uses, Readers
<1> QED
  BY <1>3, <1>4, <1>5, <1>6, <1>7, <1>8, <1>9, <1>10, <1>11, <1>12 DEF Readers

\* The services of every component run where the inventory has them.
AreUp(c) == \A n \in Node : \A s \in Services[c] \cap At(n) : <<n, s>> \in world

\* One case for each component: the task that starts its services has ended well.
LEMMA ServicesUp ==
  ASSUME CaseInv, TaskInv, PassedInv, StartInv, main = "ok", NEW c \in model
  PROVE  AreUp(c)
<1>h. group \in [Node -> Group]
  BY Models
<1>c. c \in Component
  BY Models
<1>0. ASSUME NEW n \in Node, Services[c] \cap At(n) # {}
      PROVE  n \in Hosts(Services[c])
  BY <1>0 DEF Hosts
<1>e. \A x : x = End => x > 1 /\ x > 2 /\ x > 4 /\ x > 6
  BY DEF End
<1>1. CASE c = "haproxy"
  <2>1. pc["haproxy_steps"] = End
    BY <1>1, AllEnd DEF TasksOf, Component, Services
  <2>2. pc["haproxy_steps"] > 2
    BY <1>e, <2>1
  <2>3. Hosts(Services[c]) = Controllers
    BY <1>h, <1>1, HostsTable
  <2>4. Services[c] = {"haproxy"}
    BY <1>1 DEF Services
  <2>5. \A m \in Controllers : \A s \in Services[c] : <<m, s>> \in world
    BY <1>h, <2>2, <2>4, HaproxyStepsBrings
  <2> QED
    BY <1>0, <2>3, <2>5 DEF AreUp
<1>2. CASE c = "memcached"
  <2>1. pc["memcached_steps"] = End
    BY <1>2, AllEnd DEF TasksOf, Component, Services
  <2>2. pc["memcached_steps"] > 1
    BY <1>e, <2>1
  <2>3. Hosts(Services[c]) = Controllers
    BY <1>h, <1>2, HostsTable
  <2>4. Services[c] = {"memcached"}
    BY <1>2 DEF Services
  <2>5. \A m \in Controllers : \A s \in Services[c] : <<m, s>> \in world
    BY <1>h, <2>2, <2>4, MemcachedStepsBrings
  <2> QED
    BY <1>0, <2>3, <2>5 DEF AreUp
<1>3. CASE c = "mariadb"
  <2>1. pc["mariadb_steps"] = End
    BY <1>3, AllEnd DEF TasksOf, Component, Services
  <2>2. pc["mariadb_steps"] > 1
    BY <1>e, <2>1
  <2>3. Hosts(Services[c]) = Controllers
    BY <1>h, <1>3, HostsTable
  <2>4. Services[c] = {"mariadb"}
    BY <1>3 DEF Services
  <2>5. \A m \in Controllers : \A s \in Services[c] : <<m, s>> \in world
    BY <1>h, <2>2, <2>4, MariadbStepsBrings
  <2> QED
    BY <1>0, <2>3, <2>5 DEF AreUp
<1>4. CASE c = "rabbitmq"
  <2>1. pc["rabbit_steps"] = End
    BY <1>4, AllEnd DEF TasksOf, Component, Services
  <2>2. pc["rabbit_steps"] > 1
    BY <1>e, <2>1
  <2>3. Hosts(Services[c]) = Controllers
    BY <1>h, <1>4, HostsTable
  <2>4. Services[c] = {"rabbit"}
    BY <1>4 DEF Services
  <2>5. \A m \in Controllers : \A s \in Services[c] : <<m, s>> \in world
    BY <1>h, <2>2, <2>4, RabbitStepsBrings
  <2> QED
    BY <1>0, <2>3, <2>5 DEF AreUp
<1>5. CASE c = "keystone"
  <2>1. pc["cfg_httpd"] = End
    BY <1>5, AllEnd DEF TasksOf, Component, Services
  <2>2. pc["cfg_httpd"] > 2
    BY <1>e, <2>1
  <2>3. Hosts(Services[c]) = Controllers
    BY <1>h, <1>5, HostsTable
  <2>4. Services[c] = {"keystone"}
    BY <1>5 DEF Services
  <2>5. \A m \in Controllers : \A s \in Services[c] : <<m, s>> \in world
    BY <1>h, <2>2, <2>4, CfgHttpdBrings
  <2> QED
    BY <1>0, <2>3, <2>5 DEF AreUp
<1>6. CASE c = "ceph"
  <2>1. pc["ceph_mon"] = End /\ pc["handle_osds"] = End /\ pc["setup_mgr"] = End
    BY <1>6, AllEnd DEF TasksOf, Component, Services
  <2>2. pc["ceph_mon"] > 2 /\ pc["handle_osds"] > 2 /\ pc["setup_mgr"] > 1
    BY <1>e, <2>1
  <2>3. Hosts(Services[c]) = Controllers
    BY <1>h, <1>6, HostsTable
  <2>4. Services[c] = {"ceph-osd", "ceph-mon", "ceph-mgr"}
    BY <1>6 DEF Services
  <2>5. \A m \in Controllers : \A s \in Services[c] : <<m, s>> \in world
    BY <1>h, <2>2, <2>4, CephMonBrings, HandleOsdsBrings, SetupMgrBrings
  <2> QED
    BY <1>0, <2>3, <2>5 DEF AreUp
<1>7. CASE c = "glance"
  <2>1. pc["glance_steps"] = End
    BY <1>7, AllEnd DEF TasksOf, Component, Services
  <2>2. pc["glance_steps"] > 4
    BY <1>e, <2>1
  <2>3. Hosts(Services[c]) = Controllers
    BY <1>h, <1>7, HostsTable
  <2>5. \A m \in Controllers : \A s \in Services[c] : <<m, s>> \in world
    BY <1>h, <1>7, <2>2, GlanceStepsBrings
  <2> QED
    BY <1>0, <2>3, <2>5 DEF AreUp
<1>8. CASE c = "cinder"
  <2>1. pc["cinder_steps"] = End
    BY <1>8, AllEnd DEF TasksOf, Component, Services
  <2>2. pc["cinder_steps"] > 2
    BY <1>e, <2>1
  <2>3. Hosts(Services[c]) = Controllers
    BY <1>h, <1>8, HostsTable
  <2>5. \A m \in Controllers : \A s \in Services[c] : <<m, s>> \in world
    BY <1>h, <1>8, <2>2, CinderStepsBrings
  <2> QED
    BY <1>0, <2>3, <2>5 DEF AreUp
<1>9. CASE c = "swift"
  <2>1. pc["swift_steps"] = End
    BY <1>9, AllEnd DEF TasksOf, Component, Services
  <2>2. pc["swift_steps"] > 1
    BY <1>e, <2>1
  <2>3. Hosts(Services[c]) = Controllers
    BY <1>h, <1>9, HostsTable
  <2>5. \A m \in Controllers : \A s \in Services[c] : <<m, s>> \in world
    BY <1>h, <1>9, <2>2, SwiftStepsBrings
  <2> QED
    BY <1>0, <2>3, <2>5 DEF AreUp
<1>10. CASE c = "libvirt"
  <2>1. pc["libvirt"] = End
    BY <1>10, AllEnd DEF TasksOf, Component, Services
  <2>2. pc["libvirt"] > 1
    BY <1>e, <2>1
  <2>3. Hosts(Services[c]) = Workers
    BY <1>h, <1>10, HostsTable
  <2>4. Services[c] = {"libvirtd"}
    BY <1>10 DEF Services
  <2>5. \A m \in Workers : \A s \in Services[c] : <<m, s>> \in world
    BY <1>h, <2>2, <2>4, LibvirtBrings
  <2> QED
    BY <1>0, <2>3, <2>5 DEF AreUp
<1>11. CASE c = "neutron"
  <2>1. pc["neutron_steps"] = End
    BY <1>11, AllEnd DEF TasksOf, Component, Services
  <2>2. pc["neutron_steps"] > 6
    BY <1>e, <2>1
  <2>3. Hosts(Services[c]) = Node
    BY <1>h, <1>11, HostsTable
  <2>5. \A m \in Node : \A s \in Services[c] : <<m, s>> \in world
    BY <1>h, <1>11, <2>2, NeutronStepsBring6
  <2> QED
    BY <1>0, <2>3, <2>5 DEF AreUp
<1>12. CASE c = "placement"
  <2>1. pc["placement_steps"] = End
    BY <1>12, AllEnd DEF TasksOf, Component, Services
  <2>2. pc["placement_steps"] > 2
    BY <1>e, <2>1
  <2>3. Hosts(Services[c]) = Controllers
    BY <1>h, <1>12, HostsTable
  <2>5. \A m \in Controllers : \A s \in Services[c] : <<m, s>> \in world
    BY <1>h, <1>12, <2>2, PlacementStepsBrings
  <2> QED
    BY <1>0, <2>3, <2>5 DEF AreUp
<1>13. CASE c = "nova"
  <2>1. pc["nova_steps"] = End
    BY <1>13, AllEnd DEF TasksOf, Component, Services
  <2>2. pc["nova_steps"] > 4
    BY <1>e, <2>1
  <2>3. Hosts(Services[c]) = Node
    BY <1>h, <1>13, HostsTable
  <2>5. \A m \in Node : \A s \in Services[c] : <<m, s>> \in world
    BY <1>h, <1>13, <2>2, NovaStepsBring4
  <2> QED
    BY <1>0, <2>3, <2>5 DEF AreUp
<1>14. CASE c \in {"osclient", "novnc", "tempest"}
  BY <1>14 DEF AreUp, Services
<1> QED
  BY <1>1, <1>2, <1>3, <1>4, <1>5, <1>6, <1>7, <1>8, <1>9, <1>10, <1>11, <1>12, <1>13, <1>14, <1>c, ComponentNames

\* OkIsComplete follows: all that was started has ended, so all it brings is there.
LEMMA OkIsSo == IInv => OkIsComplete
<1> SUFFICES ASSUME IInv, main = "ok"
             PROVE  /\ \A t \in Task : ~Running(t) /\ t \notin failed
                    /\ \A c \in model, n \in Node : \A s \in Services[c] \cap At(n) :
                         /\ <<n, s>> \in world
                         /\ \A u \in Uses(c, n) : u.expects \in world \cup {<<>>}
  BY DEF OkIsComplete
<1>s. CaseInv /\ ComposeInv /\ TaskInv /\ PassedInv /\ StartInv
  BY DEF IInv
<1>1. ASSUME NEW t \in Task
      PROVE  ~Running(t) /\ t \notin failed
  <2>1. pc[t] \in Nat /\ (pc[t] # 0 => pc[t] = End) /\ (t \in failed => pc[t] # 0 /\ pc[t] # End)
    BY <1>s, AllEnd DEF TaskInv
  <2> QED
    BY <2>1 DEF Running, Started, Ended
<1>2. ASSUME NEW c \in model, NEW n \in Node, NEW s \in Services[c] \cap At(n)
      PROVE  /\ <<n, s>> \in world
             /\ \A u \in Uses(c, n) : u.expects \in world \cup {<<>>}
  <2>1. <<n, s>> \in world
    BY <1>s, ServicesUp DEF AreUp
  <2>2. \A u \in Uses(c, n) : u.expects \in world \cup {<<>>}
    BY <1>s, ExpectationsMet DEF Met
  <2> QED
    BY <2>1, <2>2
<1> QED
  BY <1>1, <1>2

\* TypeOK follows.
LEMMA TypesFollow == IInv => TypeOK
<1> SUFFICES ASSUME IInv
             PROVE  TypeOK
  OBVIOUS
<1>1. CaseInv /\ ComposeInv /\ TaskInv
  BY DEF IInv
<1>2. Len(Creation) = 16
  BY DEF Creation
<1>3. \A t \in Task : pc[t] \in 0 .. Len(Body(t)) \cup {End}
  <2>1. \A t \in Task : Len(Body(t)) \in 1 .. 9
    BY Bodies DEF BodyOK
  <2>2. \A t \in Task : pc[t] \in Nat /\ (pc[t] # 0 => pc[t] \in 1 .. Len(Body(t)) \cup {End})
    BY <1>1 DEF TaskInv
  <2> QED
    BY <2>1, <2>2
<1>4. failed \subseteq {t \in Task : Started(t)}
  BY <1>1 DEF TaskInv, Started
<1>5. \A n \in Node : sent[n] \in {NotSent, [keys |-> keys[n], peers |-> peers[n]]}
  <2> SUFFICES ASSUME NEW n \in Node
               PROVE  sent[n] \in {NotSent, [keys |-> keys[n], peers |-> peers[n]]}
    OBVIOUS
  <2> QED
    BY <1>1 DEF ComposeInv
<1>6. composed \in 0 .. Len(Creation) /\ main \in {"compose", "wait", "ok", "failed"}
  BY <1>1, <1>2 DEF ComposeInv
<1> QED
  BY <1>1, <1>3, <1>4, <1>5, <1>6 DEF TypeOK, CaseInv

-----------------------------------------------------------------------------
(* The theorems.                                                           *)

(***************************************************************************)
(* The parts fit together in every deployment: what a task is past of its  *)
(* steps holds, what was composed is there, the tasks that do not wait for *)
(* all they need are started late enough, and no call that was made lacked *)
(* a password or a peer (main of speedling/sl.py, tasks.py, slos/*.py).    *)
(***************************************************************************)
THEOREM Inductive == Spec => []IInv
  BY InitHolds, NextKeeps, PTL DEF Spec

\* The variables keep their types: the main thread, the steps of the tasks and
\* what the nodes are sent stay in their ranges.
THEOREM Types == Spec => []TypeOK
  BY Inductive, TypesFollow, PTL

(***************************************************************************)
(* No command that is tried once finds the tables, keys, services or files *)
(* missing that other tasks bring: the task_wants of slos/*.py are enough, *)
(* on every inventory with a controller, whatever fails and however slowly *)
(* each task runs.  Two commands have no such wait: set_mon_bootsrapped    *)
(* may lack its directory until ceph_steps has made it, and                *)
(* do_register_ceph_libvirt the libvirtd that it talks to until libvirt    *)
(* has ended, and no longer.                                               *)
(***************************************************************************)
THEOREM NothingRunsTooEarly == Spec => NothingTooEarly
<1>1. IInv /\ [Next]_vars => [Timely]_vars
  BY NextKeeps
<1> QED
  BY <1>1, Inductive, PTL DEF Spec, NothingTooEarly

(***************************************************************************)
(* Every node that a task calls was given each password and each peer that *)
(* the configuration made there is read from: the compose functions of     *)
(* slos/*.py spread all of them, for every model that has what its         *)
(* components depend on, that of createmodel among them.                   *)
(***************************************************************************)
THEOREM AllCanBeRead == Spec => []ContentCanBeMade
<1>1. IInv => ContentCanBeMade
  BY DEF IInv
<1> QED
  BY <1>1, Inductive, PTL

(***************************************************************************)
(* When main prints "Seams ok.." every task that was started has ended     *)
(* well, every service of the inventory runs on its nodes, and the users   *)
(* and schemas that their configuration names exist.                       *)
(***************************************************************************)
THEOREM OkMeansComplete == Spec => []OkIsComplete
  BY Inductive, OkIsSo, PTL
-----------------------------------------------------------------------------
(* The passwords that compose spreads are those of JSONKeyMgr, see         *)
(* KeyManager: for any principals, any buffer and any number of            *)
(* deployments, killed wherever they are, a principal keeps the password   *)
(* that was given first.  What was given is always in the file, or the     *)
(* file cannot be loaded and nothing more is given; and the text written   *)
(* over the file has at least what the file has.                           *)

\* What get_creds has returned is what the file has.
GivenIsKept ==
  datafile # Torn => \A k \in Principal : given[k] # {} => datafile # Absent /\ datafile[k] # 0 /\ given[k] = {datafile[k]}

\* A deployment at work has at least what the file has, and what it has agrees
\* with what was given.
MemoryIsAhead ==
  /\ phase = "make" => datafile = Torn /\ data = NoKeys /\ \A k \in Principal : given[k] = {}
  /\ phase \in {"dump", "close"} =>
       /\ data[pn] # 0
       /\ \A k \in Principal : given[k] # {} => data[k] # 0 /\ given[k] = {data[k]}
       /\ datafile # Torn => datafile \in Tables /\ \A k \in Principal : datafile[k] # 0 => data[k] = datafile[k]
       /\ phase = "dump" => datafile # Torn

KMInv == KMTypeOK /\ GivenIsKept /\ MemoryIsAhead /\ OnePassword /\ TornByKillOnly

USE PrincipalAssumption, FileAssumption, BoundAssumption

LEMMA InitKMInv == KMInit => KMInv
BY DEF KMInit, KMInv, KMTypeOK, GivenIsKept, MemoryIsAhead, OnePassword, TornByKillOnly, NoKeys, Tables

\* A text with at least the passwords of the old one replaces it as a whole.
LEMMA NotShorter ==
  ASSUME NEW old \in {Absent, Torn} \cup Tables, NEW new \in Tables,
         old \in Tables => \A k \in Principal : old[k] # 0 => new[k] # 0
  PROVE  Over(old, new) = new
<1>1. CASE old \in Tables
  <2>1. Has(old) \subseteq Has(new)
    BY <1>1 DEF Has
  <2>2. IsFiniteSet(Has(new))
    BY FS_Subset DEF Has
  <2>3. Cardinality(Has(old)) \in Nat /\ Cardinality(Has(new)) \in Nat /\ Cardinality(Has(old)) <= Cardinality(Has(new))
    BY <2>1, <2>2, FS_Subset, FS_CardinalityType
  <2> QED
    BY <2>3 DEF Over
<1>2. CASE old \notin Tables
  BY <1>2 DEF Over
<1> QED
  BY <1>1, <1>2

LEMMA OpenKMInv == KMInv /\ Open => KMInv'
BY DEF KMInv, Open, Loads, KMTypeOK, GivenIsKept, MemoryIsAhead, OnePassword, TornByKillOnly, NoKeys, Tables

LEMMA MakeFileKMInv == KMInv /\ MakeFile => KMInv'
BY DEF KMInv, MakeFile, KMTypeOK, GivenIsKept, MemoryIsAhead, OnePassword, TornByKillOnly, NoKeys, Tables

\* What is in memory is in the file: it is what was given, if anything was.
LEMMA KnownKMInv == ASSUME NEW k \in Principal, KMInv, Known(k) PROVE KMInv'
<1>1. datafile \in Tables /\ data = datafile /\ data[k] \in Nat /\ data[k] # 0
  BY DEF KMInv, Known, KMTypeOK, Tables
<1>2. given[k] \subseteq {data[k]}
  BY <1>1 DEF KMInv, GivenIsKept
<1>3. given'[k] = {data[k]} /\ \A l \in Principal : l # k => given'[l] = given[l]
  BY <1>1, <1>2 DEF Known, Return, KMInv, KMTypeOK
<1>4. given' \in [Principal -> SUBSET Nat] /\ phase' = "ready"
  BY <1>1 DEF Known, Return, KMInv, KMTypeOK
<1>5. UNCHANGED <<datafile, data, pn, generated, runs, killed>>
  BY DEF Known
<1> QED
  BY <1>1, <1>3, <1>4, <1>5 DEF KMInv, Known, KMTypeOK, GivenIsKept, MemoryIsAhead, OnePassword, TornByKillOnly

\* The file has no password of k, so none was given: the new one is the first.
LEMMA GenerateKMInv == ASSUME NEW k \in Principal, KMInv, Generate(k) PROVE KMInv'
<1>1. datafile \in Tables /\ datafile[k] = 0 /\ generated' \in Nat /\ generated' # 0
  BY DEF KMInv, Generate, KMTypeOK, Tables, Loads
<1>2. data' = [datafile EXCEPT ![k] = generated'] /\ data' \in Tables
  BY <1>1 DEF Generate, Tables
<1>3. given[k] = {} /\ \A l \in Principal : given[l] # {} => datafile[l] # 0 /\ given[l] = {datafile[l]}
  BY <1>1 DEF KMInv, GivenIsKept
<1>4. data'[k] # 0 /\ \A l \in Principal : l # k => data'[l] = datafile[l]
  BY <1>1, <1>2 DEF Tables
<1> QED
  BY <1>1, <1>2, <1>3, <1>4 DEF KMInv, Generate, KMTypeOK, GivenIsKept, MemoryIsAhead, OnePassword, TornByKillOnly

LEMMA DumpKMInv == KMInv /\ Dump => KMInv'
BY DEF KMInv, Dump, KMTypeOK, GivenIsKept, MemoryIsAhead, OnePassword, TornByKillOnly

LEMMA CloseKMInv == KMInv /\ Close => KMInv'
<1> SUFFICES ASSUME KMInv, Close PROVE KMInv'
  OBVIOUS
<1>1. pn \in Principal /\ data \in Tables /\ data[pn] \in Nat /\ data[pn] # 0
  BY DEF KMInv, Close, KMTypeOK, MemoryIsAhead, Tables
<1>2. datafile' = data
  <2>1. datafile \in Tables => \A k \in Principal : datafile[k] # 0 => data[k] # 0
    BY DEF KMInv, Close, MemoryIsAhead
  <2> QED
    BY <1>1, <2>1, NotShorter DEF KMInv, KMTypeOK, Close
<1>3. given'[pn] = {data[pn]} /\ \A l \in Principal : l # pn => given'[l] = given[l]
  BY <1>1 DEF Close, Return, KMInv, KMTypeOK, MemoryIsAhead
<1>4. given' \in [Principal -> SUBSET Nat] /\ phase' = "ready"
  BY <1>1 DEF Close, Return, KMInv, KMTypeOK
<1> QED
  BY <1>1, <1>2, <1>3, <1>4 DEF KMInv, Close, KMTypeOK, GivenIsKept, MemoryIsAhead, OnePassword, TornByKillOnly

LEMMA EndKMInv == KMInv /\ DeploymentEnds => KMInv'
BY DEF KMInv, DeploymentEnds, KMTypeOK, GivenIsKept, MemoryIsAhead, OnePassword, TornByKillOnly, NoKeys, Tables

LEMMA KillKMInv == KMInv /\ Kill => KMInv'
BY DEF KMInv, Kill, KMTypeOK, GivenIsKept, MemoryIsAhead, OnePassword, TornByKillOnly, NoKeys, Tables

LEMMA NextKMInv == KMInv /\ [KMNext]_kmVars => KMInv'
<1> SUFFICES ASSUME KMInv, [KMNext]_kmVars PROVE KMInv'
  OBVIOUS
<1>1. CASE UNCHANGED kmVars
  BY <1>1 DEF kmVars, KMInv, KMTypeOK, GivenIsKept, MemoryIsAhead, OnePassword, TornByKillOnly
<1> QED
  BY <1>1, OpenKMInv, MakeFileKMInv, KnownKMInv, GenerateKMInv, DumpKMInv, CloseKMInv, EndKMInv, KillKMInv DEF KMNext, GetCreds

\* JSONKeyMgr keeps its inductive invariant over kills and restarts.
THEOREM KeysAreKept == KMSpec => []KMInv
BY InitKMInv, NextKMInv, PTL DEF KMSpec

\* The types of the key manager, and memory and file are the same at rest.
THEOREM KeyTypes == KMSpec => []KMTypeOK
BY KeysAreKept, PTL DEF KMInv

\* get_creds never returns two passwords of one principal, over any number of
\* deployments that were killed anywhere.
THEOREM PasswordIsOne == KMSpec => []OnePassword
BY KeysAreKept, PTL DEF KMInv

\* creds.json can be loaded unless a deployment was killed while it wrote.
THEOREM TornByKill == KMSpec => []TornByKillOnly
BY KeysAreKept, PTL DEF KMInv
=============================================================================
