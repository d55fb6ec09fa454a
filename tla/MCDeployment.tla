--------------------------- MODULE MCDeployment ---------------------------
(* Small instances of Deployment for TLC. *)
EXTENDS Deployment, TLC

CONSTANTS n1, n2

Split == n1 :> "controller" @@ n2 :> "worker"
Twice == n1 :> "aio" @@ n2 :> "controller"
Identity == {"haproxy", "memcached", "mariadb", "keystone"}

\* every schedule of the tasks of a few components
Free(g, m, b) == [group |-> g, model |-> m, slow |-> UNION {TasksOf[c] : c \in m}, breaks |-> b]
\* all components
Whole(g, late, b) == [group |-> g, model |-> Component, slow |-> late, breaks |-> b]

MCCases ==
  {Free(Split, Identity, 1), Free(Split, {"ceph", "libvirt"}, 0), Free(Twice, Identity \cup {"rabbitmq"}, 0)}
  \cup {Whole(Split, {t}, 0) : t \in Task}
  \cup {Whole(Split, {}, 1), Whole(Twice, {"rabbit_steps", "handle_pools"}, 0)}

=============================================================================
