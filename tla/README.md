# Verification of speedling

speedling deploys OpenStack from one controller process.  Component modules
(`slos/`) describe their work as tasks; the controller (`speedling/`) runs the
tasks in threads, and the tasks call functions on the nodes over ssh.  This
directory holds TLA+ models of that machinery, the TLC configurations that
check them on small instances, and TLAPS proofs for every instance.

## 1. Inventory

| part | code | state it keeps | operations |
|---|---|---|---|
| task engine | `speedling/facility.py` 525-621 | `thr` and `failed` of every task, `pending`, `FAILED`, `task_sync_mutex` | `task_wants` (start and join), `task_will_need` (start only), `task_add_wants`, the end of a task thread |
| main program, deployment script | `speedling/sl.py`, `slos/sl.py` | the model: components and the services of every node | create the model, connect, compose, set identities, wait for the goals |
| remote calls, controller | `speedling/control.py` | one queue, one `sender` and one `input_handler` thread per node; `ssh_messages` with a context per call | `call_function*`, `send_msgs*`, `wait_for_all_response` |
| remote calls, node | `speedling/receiver.py` | input thread, a thread per function call, `response_queue` | `input_handler`, `task_exec`, `answer_handler` |
| calls on an inventory | `speedling/inv.py` | `THIS_NODE`, host caches | `do_do`, `do_diff`, `distribute_*`, `check_response` |
| component base | `speedling/facility.py` 37-307 | `changed`, registries of goals, users, schemas | `compose`, `have_content` once per node, `call_do`, retries, file helpers |
| once-per-process guards | `speedling/util.py`, `pkgutils.py`, `gitutils.py`, `piputils.py` | `done` flags, five kinds of locks | `lock_sigleton_call`, `ensure_*` |
| key manager | `speedling/keymgrs.py` | JSON file and its copy in memory | `get_creds` |
| configuration files | `speedling/cfgfile.py` | files | `ini_gen`, `content_file`, `ensure_*` |
| services | `slos/*.py` | files, databases and daemons of the nodes | tasks and the functions they call on nodes |
| catalog sync | `slos/ossync.py` | keystone's services and endpoints | `endpoint_sync` |
| user sync | `slos/ossync.py` | keystone's domains, projects, groups, roles, users and their assignments; forked children | `user_dom_sync` |
| build slices | `virtbs/vbs.py` | virtual machines, networks, images | `cycle`, `wipe`, `tag` |

The components are composed first, one after the other, in the controller: each
asks the key manager for passwords, gives passwords and peer lists to the nodes
of its own and of other components' services, and registers users with keystone
and schemas with mariadb.  Every node is then given its part, once.  The main
program waits for the goal tasks through the task engine.  A task
waits for others (`task_wants`), asks early for tasks it will need
(`task_will_need`) and calls functions on sets of nodes (`do_do`, `do_diff`,
`distribute_as_file`).  A call goes through a queue per node, the ssh pipe and
the node's input thread to a thread of its own on the node; the answers come
back through one pipe per node and are gathered in the call's context.  On a
node the function runs `have_content` of its component behind the guards, writes
the configuration from what the node was given, and starts services; one task
each, on one node, runs the two syncs of keystone.

What is hard here: many threads share the engine's and the calls' state under
locks that are taken and released by hand; what one component's step needs is
made by steps of others, and only the waits between tasks order them; a call spans three kinds of threads
and two machines; connections end without notice; failures must reach exactly
those who depended on the failed part, late, without interrupting the others
(`README.rst`: "Any exception will abort the controller, however it does not
interrupts the other running tasks immediately").

## 2. Modules

### TaskGraph, TaskEngine: the task engine

`TaskGraph` is what the engine promises: a task that a running waiter asks for
runs once, may end well only when all it waited for ended well, and the main
program ends badly only over a failed goal.  It has one variable, the status
of every waiter.

`TaskEngine` is `facility.py` thread by thread.  A task's program is a sequence
of steps (`Body`): wait for a set of tasks, ask for a set of tasks, or do some
work that may raise.  The waits of `task_add_wants` are the first step of a
body.  `_taskify` is four actions, because other threads see its effects one
by one: `TaskifyEnter` takes `task_sync_mutex`, `TaskifyLook` is the
`hasattr(task, 'thr')` test of one argument (in any order) with the reset of
`failed`, `TaskifyStart` creates and starts the thread, `TaskifyLeave` gives the
mutex back.  `JoinOk` and `LateFail` are the join of all threads with the test
of the failed flags after it; joining the threads one after the other is one
step, enabled when the last has ended, since a waiter does nothing visible
between two joins.  `Raise`, `Return`, `Finally` and `Exit` are the end of a
task thread, in which `failed`, `pending` and the liveness of the thread change
one after the other.

### ScatterGather, Control: remote calls

`ScatterGather` is what a call promises to its caller: the function runs at
most once on every target, and the call ends well only after it ended well on
all of them.

`Control` follows a call from `do_do`, `do_diff` or `distribute_*` down to the
node and back.  `Put` queues the message of one target, `Register` makes the
context known, in this order as in `send_msgs`.  `RunLocally` is the part of the
controller's own node (`-I`), which `do_do` and `do_diff` take out of the targets.
`distribute_*` do not (`OwnIsTarget`): `PutOwn` is the `KeyError` when the turn of
the own node comes, after some of the messages were queued.  `WaitLookup`, `WaitFinalize`, `WaitDelete` are
`wait_for_all_response`, `CheckResponse` is the end of `do_do`.
`SenderSend`, `HandlerLookup`, `HandlerApply`, `HandlerEnd` are the two threads
of a connection; `NodeRead`, `TaskExec`, `AnswerHandler` are the node.
`Disconnect` ends a connection at any moment: what is in the pipes may be lost
from some point on, as with a TCP connection.  Two locks are modelled by their
effect.  `ssh_messages_mutex` is held over single dictionary operations, so it
appears only as the variable that says which dead thread took it with it: an
`input_handler` that raises `KeyError` between acquire and release.  The
context's `mutex` covers `HandlerApply`, one action.  A message is represented
by its call.

`Api` says which function each call uses, `Identity` whether `-I` is given,
`Flaky` which connections may end, `Status` how functions may end, and
`RemoteIsSlow` whether a node answers only after the caller has registered the
context - an assumption the code makes without saying so.

### Stream: the pipe to a node

`Control` takes a message for one thing.  `Stream` looks at the pipe below it: a
message is a size and a body, a stream call's message is followed by chunks,
each with its size, and a zero size.  The node's input thread runs the function
of a stream call itself, and the function reads from the same pipe.  The pipe is
a sequence of units (size, body, piece of data), each of which knows the call,
chunk and piece it is; the node does not look at that.  A read takes any part of
what is there up to what was asked for, as `os.read` does.  `ReadSize`, `ReadBody`,
`Dispatch` are `input_handler`; `ReadRest`, `ReadChunk`, `ReadEnd`, `ReadAgain`
are the ways through `stream_reader.read`; `FunctionReads`, `FunctionReturns`,
`FunctionRaises`, `Check`, `Drain` are `task_exec` for a stream call.  Data read
as a size is any number of `Garbage`.  A function may raise anywhere, also before
it has read its stream, as `file_writer` does for an unknown user;
`raised_early` remembers the calls whose function did, for the properties.  That a
function has done its reading when it returns is assumed (`FunctionReturns`; see
the hazard at `localsh.py:48`).

### NodeContent: have_content and its guards

The calls that arrive at a node run in threads and ask for overlapping content.
A thread has a stack of frames, one for each guard it is inside, with the steps
that are left of the guard's body.  `TestDone`, `Acquire` and `Finish` are the
three parts of `lock_sigleton_caller` (and of `ensure_compose`, `ensure_git`,
`ensure_requirements`, which are the same code written out): the flag tested
without the lock, the lock with the flag tested again, the flag set and the
lock given back.  `Unwind` is an exception passing one `finally`.  `Work`, `Clone`
and `PipStarts`/`PipEnds` are what the bodies do: steps that may raise, git
whose exit code nobody reads, and pip under `PIP_LOCK`, which raises when what
it reads is not there.

### Slices: virtual machines for tests

`virtbs/vbs.py` creates and removes sets of virtual machines by slice number.
Several commands for different slices may run on one host; they share the
hypervisor, and know what is theirs by name.  `Begin` lists the machines and
selects by prefix, `WipeDomain`, `WipeNetwork`, `WipeBmc` remove one of those
listed, with the error when it is gone in the meantime.  `WipeDomain` may also
leave the machine: errors of `destroy` and `undefine` are dropped (466-473).  The
code does not know of such a machine; `kept` does, for the properties.
`CreateNetwork`, `Fork`, `Define`, `Start` and `WaitAll` are the second half of
`cycle`.  A name is represented by its prefix and the digits of the slice number, decimal or
hexadecimal as in the code (at most two digits, `SliceAssumption`); addresses are
the numbers the code computes.  That the next command for a slice comes when the
children of the one before are through, also of one that raised, is assumed of the
operator (`Begin`); nothing in the code waits for it.

### EndpointSync: the catalog of keystone

`endpoint_sync` makes services, endpoints and regions what the components have
registered.  It works in parts (`EnterServices`, `EnterRegions`, ...), and in
every part what it does follows from what it listed at the start, so a part is a
sequence of API calls, worked out by `DoubleCalls`, `ServiceCalls`,
`RegionCalls`, `EndpointCalls`, `ExtraServiceCalls`, `ExtraRegionCalls` with all
the orders in which the dictionaries may be walked.  Each call is a step and may
fail (`Raise`): a call whose answer is lost leaves the same state as a failure
in front of the next one.  With `dry` the first call ends the sync.  `services`,
`endpoints` and `regions` are the server's; of keystone itself only what its
calls do is modelled, and that it deletes the endpoints of a service with it.
Nobody else changes the catalog meanwhile, as the comment above the function
demands.  A service is its name with its type, and its description.

### UserSync: users, roles and groups

`user_dom_sync` makes the domains one after the other (`MakeObject`, `NextPart`,
`CreateRole`: the domain, its projects, its groups, the roles of its users),
then forks a child for every `Batch` users (`Fork`) and waits for the oldest when
more than `Window` run (`WaitPid`), at the end for all (`Return`).  A child takes
its users one by one: `ListUser`, `Record`, `Read`, `ChangeMember`, `LookUp`,
`ChangeGrant` are the calls in their order, the difference being worked out
from what `Read` saw.  Any call may fail.  In the sync that is `Raise`; in a child
(`ChildFails`, and `Dies` where the code itself raises) the exception unwinds into
the child's own copy of `task_exec`, which ends with status 0, so the assertion
on `waitpid` does not see it - `lost` remembers that it was so.  `Raise` is also a
sync killed with its receiver: its children are not in anybody's list then, but
they run on, and a second sync may begin next to them.  `UnboundLocal` is the
group part that reads the loop variable of the project part.

### Deployment: all components together

`Deployment` puts the tasks of `slos/*.py` on the engine.  Each component has its
`compose` (`MariadbCompose`, ...): which nodes get which passwords and peers, which
users and schemas it registers.  Each has what its configuration reads on a node
(`Uses`) and the services it has units for (`Units`).  A task's `Body` is a sequence
of steps: start tasks, wait for tasks, or make calls; calls without a wait in
between are one step.  A call names the nodes it goes to, the component whose
`have_content` it runs, what it needs of the cloud (`needs`) and of its own node
(`here`) - tables, keys, running services, files -, and what it brings to them.
These follow from the commands the function runs and the configuration they read.

`Compose` walks `Creation`, the order in which `createmodel` makes the components,
one `Composition` after the other (nothing for a component that is not in the
model); with `SetIdentity` it is the first half of `main`.  `WillNeed`, `WantsStart`,
`WantsReturn` are the engine as seen by a task, atomic here since `TaskEngine`
shows what it promises.  `Perform` makes the calls of a step, `GiveUp` is a call
that does not find what it needs (after its retries, if it has any), `Break` a call
that fails for a cause of its own, before or after it did its work.  A command
whose exit status is that of the filter behind it (`quiet`) does not fail the
task.  `unmet` records what a call lacked.  `GoalsEnd` is the end of `main`.  What a
call needs may be on the controller, too: `create_ceph_state_dirs` and
`set_mon_bootsrapped` are steps of their tasks there.  Of the forming of the
galera and rabbit clusters the calls are modelled (`do_mariadb_query_state`,
`do_rabbitmq_test_in`, `do_rabbitmq_reset_join`), which may fail as any may, but
not their answers: a node joins again whether it has to or not, and a cluster is
asked once, as the code does in effect (see the hazard at `mariadb.py:45`).

### KeyManager: one password for good

`JSONKeyMgr` keeps the passwords in `creds.json`.  `Open` and `MakeFile` are its
constructor, `Known` answers from memory, `Generate`, `Dump`, `Close` are the other
way through `get_creds`: what does not fit into the file's buffer is written
while dumping, the rest when the file is closed, over the old text and without
cutting it off.  `Kill` ends the deployment anywhere in between.  The file is
absent, a table of passwords or `Torn`, a text `json.load` refuses, which ends a
deployment that opens it.  Names that `Deployment` has as well begin with `KM`: the
proofs about both are in one module, as the passwords are those that `Compose`
spreads.

## 3. What is checked

| run | instance | properties |
|---|---|---|
| TaskEngine | 4 tasks in the shape of `keystone.py`: two shared dependencies, an early `task_will_need`, a chain | below |
| ControlSafety | 2 nodes, a `do_do` and a file distribution, `-I`, answers at any time, functions may raise | below |
| ControlLoss | 2 nodes, a `do_diff` and a file distribution, one connection may end | `LossIsContained` |
| ControlRace | 2 nodes, two `do_do`, answers at any time, fairness | `CallsEnd`, violated |
| Deployment | a controller and a worker (or two controllers), 16 components, 33 tasks | below |
| Stream | a function call, a stream of two chunks, an empty stream; functions raise anywhere | below |
| NodeContent | two calls for a component from source, one for a packaged one, one for the client | below |
| Slices | slices 1 and 2, two commands each, one or two machines, two networks | below |
| SlicesWipe | slices 1 and 10 | `StaysInItsSlice`, violated |
| EndpointSync | three syncs, five things that may be registered, four catalogs to begin with | below |
| UserSync | two syncs, four things that may be registered, a server with what an older deployment left | below |
| KeyManager | three deployments, three principals, two kills | below |

Task engine:

* `WantsAreMet`, `NoSuccessOverFailure`: success means that everything that was
  waited for has ended well, and a failure stops every waiter over it.
* `PendingIsExact`: `log_pending` shows exactly the unfinished tasks.
* `NeverRestarted`: no interleaving starts a task twice or takes it back.
* `Termination`: without cycles among the waits everything ends.
* `ImplementsGraph`: the engine with its mutex, joins and flags implements
  `TaskGraph`, fairness included.

The deployment:

* `NothingTooEarly`: a command that is tried once finds what it needs, however
  late the task that brings it is.  This is the property that the waits in all
  those tasks are there for; nothing else in the code states it.  Two commands
  come too early (`MayLack`), and these only as long as the task that brings what
  they need has not: `set_mon_bootsrapped` until `ceph_steps` has made the state
  directory, `do_register_ceph_libvirt` until `libvirt` has ended.
* `ContentCanBeMade`: every password and peer list that a configuration reads on
  a node was given to that node, by whichever component had to.
* `OkIsComplete`: a deployment that says it is done has every service running
  on its nodes, every user and schema that a configuration names, and no task
  that failed or is still at work.
* `EndsOrRepeats`: it ends, except in the two loops that are meant to give up and
  do not (`[[ retry == 0 ]]` compares two words, `neutron.py:340`, `tempest.py:117`).

Remote calls:

* `GatheredIsComplete`: a caller past the wait has the answer of every target,
  and it is the one the node gave to this call.
* `CountIsExact`: `to_process` counts the missing answers, and `finalize` is free
  only when none is missing, so it is released once.
* `LossIsContained`: a lost connection holds up only calls to that node.
* `ImplementsGather`: all of it implements `ScatterGather`.

The pipe:

* `OwnData`: a function gets its own stream, in order and without gaps, however
  the reads are cut.
* `WholeOrError`: a function that leaves part of its stream is reported.
* `KeepsItsPlace`: the input thread finds the next message, also behind a function
  that returned early or raised at its end, until the connection ends or a
  function raises before the end of its stream.
* `AnsweredUnlessRaised`: until then every call that was sent is answered.

Content of a node:

* `ReturnsComplete`: a call that returns has all its content, whoever put it
  there and however often it failed before.
* `DoneIsComplete`: no flag is up over a failed attempt.  In particular a
  component is not taken for installed when a clone failed unseen, because pip
  then fails on what is missing.  For the requirements repository alone this is
  not so: its flag goes up after a failed clone, the clone is not tried again,
  and every later pip of the node raises.
* `OneAtATime`: no two threads work in one repository, on one file or in the
  python packages.  The package manager is not among these: `ensure_git` may run
  it next to `ensure_compose`.
* `ContentCallsEnd`: nested locks and exceptions never stop the node.

Slices:

* `AddressesAreUnique`: over all slices and networks of the host.
* `StaysInItsSlice`: a command removes only machines and networks of its slice.
* `CommandDelivers`: at its end the slice has the machines asked for, this
  command's ones, those that are missing were reported, and what else there is of
  the slice are machines that could not be removed (`kept`).

Catalog:

* `SyncReaches`: a sync that returns has made the catalog what is wanted.
* `RetryWorks`: this goes for the sync after one that failed at any call, too.
* `ServingIsKept`: an endpoint that is as wanted is there all the time.
* `NoDoubleMade`: nothing is made twice, wherever the syncs before stopped.

They are stated for catalogs that are `Regular`, which is what the code needs and
does not say: a service has one description in all regions (`OneDesc`), of double
services only one has endpoints (`OneServing`: otherwise line 455 takes the wrong
entry out of `endp_dict`), all endpoints of a service, old and new, are in one
region (`InOneRegion`: 404, 562 and the loop at 587 know the regions of the listing
only), and a URL changes only where the service has a single endpoint (609).  The
others hold for what the components register and what syncs leave.  After a change of the address all
updates of a service go to the last endpoint of its region, the others keep the
old URL, and each later sync does the same.

`RetryWorks` needs a little more (`Repeatable`): the single endpoint that gets
another URL is also the only one its service is to have.  Say nova has a public
endpoint and is now to have an admin one as well, and the public one elsewhere.  A
sync that gets through does so.  One that fails between the two calls, with the
admin endpoint made and the URL not yet changed, leaves a service with two
endpoints of which one needs another URL, and the next sync gives it to
whichever comes last in the list.  So a failed deployment that is only repeated
may never become right, although the same deployment without the failure does.
An older form of the property left this out; the attempt to prove it gave the
case, and TLC then found one like it on the run's instance.

Users:

* `SyncReaches`: a sync that returns has done all it was asked for, if all its
  children ended well and none of an earlier sync was left.  The second
  condition and the first one are needed: the code notices neither.
* `WantedStays`: a role or group that a user is to keep is never taken away, not
  even for a moment and not by a sync that fails.
* `RolesBeforeChildren`: "ensure we have all rule id before switching to parallel".
* `SyncEnds`: a sync ends, whatever fails, and so do the children.

Passwords:

* `OnePassword`: no deployment is given another password for a principal than an
  earlier one was given.
* `TornByKillOnly`: writing over the old text never leaves the end of a longer
  one; only a kill while the file is written makes it unreadable.

Two properties are violated, and are disagreements with what the repository
says:

* `CallsEnd` (ControlRace).  The messages are queued before the context is
  registered.  An answer that arrives in between kills `input_handler` with
  `ssh_messages_mutex` taken, and no call ends any more.
* `StaysInItsSlice` (SlicesWipe).  The prefix `bs1` also selects the networks of
  slice 10; machines are named in hexadecimal, so it selects those of 16.

Other oddities of the code are in the models without a run of their own:

* `AssertHolds`: `do_do` asserts `len(THIS_NODE) == 0` exactly when it is 1
  (`inv.py:143`), so with `-I` every `do_do` that includes the own node raises.
* `PutOwn`: with `-I` a file distribution to the own node raises (`control.py:392`)
  with some messages queued and no context made.  Their answers kill the
  `input_handler` of their nodes with `ssh_messages_mutex` taken, and later calls
  wait for ever; what `ControlSafety` shows is that none of them ends well by mistake.
* `FunctionRaises`: a stream function that raises before it has read its stream
  (`file_writer` for an unknown user, "for early failure, put it into the front",
  `receiver.py:57`) leaves it in the pipe; the input thread takes it for messages
  and dies, and the node answers nothing any more.
* `set_mon_bootsrapped`: `ceph_mon` marks its monitors in a directory that only
  `ceph_steps` makes ("move to mon or wait to mon", `ceph.py:31`); the keyring tasks
  (70, 85) start `ceph_mon` without waiting for it, and it fails at its last step.
* `do_register_ceph_libvirt` runs "after libvirt is up" (`ceph.py:355`), but the wait
  for it is commented out (93).
* `WipeDomain`: a machine whose removal fails stays, and `wipe`, which "Destroys the
  slice" (`vbs.py:1101`), ends as if it had gone.
* A task that is only asked for with `task_will_need` and fails does not fail the
  main program.  In the deployment every such task is also waited for, which is
  part of `OkIsComplete`.
* `WipeBmc` takes the BMCs of all slices (`vbs.py:518`); `StaysInItsSlice` speaks of
  machines and networks.
* `UnboundLocal` in `UserSync`: a domain with groups before any project.

Bounds.  Two calls and two nodes are enough for answers of one call to race
each other, for calls to overtake each other in every queue, and for a dead
thread of one node to meet callers of the other; a third node or call adds no
new pair of threads.  A `do_diff` with a part on the controller is in no run: it
differs from `do_do` in one step of its caller (`RunLocally`), and the proofs are
about every `Api`.  Four tasks are enough for two waiters to share two
dependencies with one of them depending on the other.  Streams with two chunks
of one and two pieces have every cut that longer ones have: inside a chunk,
between chunks, in front of the zero size.  On a node two threads at the same
guard and two at different ones with common inner guards make every pair of
threads; a third at the same guard waits like the second.  The only artificial
cap is `MaxCommands` in `Slices`: a second command finds what a first one left, a
third nothing else.  In `EndpointSync`, `MaxSyncs` lets a sync find what an
interrupted one left that had found the same itself, `MaxServices` and
`MaxEndpoints` are never reached, and `Orders` are two of the orders in which the
API may list things, that of their creation and its reverse: one of a service's two
endpoints is the first in the one and the last in the other.

`Deployment` has 33 tasks, too many for all their interleavings.  What the
properties ask is whether a task can be overtaken by one that needs what it
brings, and the world only grows, so it is enough to delay the tasks that bring
something.  `slow` names the tasks that run in any order; the others run as soon
as they can, one after the other, and the slow ones move, and retries are used
up, when no other can (`Turns`).  `MCCases` has each of the 33 tasks in turn as the
slow one, with every component; every schedule of haproxy, memcached, mariadb
and keystone, with one command failing, and, with rabbit, on two controllers;
every schedule of ceph with libvirt; and all components with one command
failing (`breaks`).  Two nodes of different kinds tell a node that was given a
password from one that was not; two controllers tell the node a step picks from
the others.

`UserSync` has `Batch = 2` and `Window = 1` where the code has 4 and 32: with three
users in one domain and one in another there is a child with two users, one
with one, a sync that waits inside the loop and one that waits at its end.
`MaxFails` is one failing call or kill, `MaxSyncs` two syncs, the second next to
the children of the first; `MaxChildren` is never reached.  `KeyManager` has a
buffer that the second of three passwords outgrows, and as many kills as leave
one deployment to see what they left.  One deployment runs at a time, as
`keymgrs.py:74` says ("concurrent accesss not expected").
`SliceAssumption`, `NetIdAssumption` and
`RequestAssumption` name what the code expects of its input without testing it:
slices of at most two digits ("assume max 16 slince", `vbs.py:57`), fewer networks
than a slice has subnets and fewer machines than a subnet has addresses.

Fairness.  Every thread is weakly fair: threads are scheduled by the operating
system, the functions called are assumed to return, as the code itself assumes
(it has no timeouts).  `TaskEngine` is weakly fair per thread only: a waiter in
front of `task_sync_mutex` may in principle be passed by others, but each task
takes it finitely often, so weak fairness is enough.  `Issue` and `Disconnect`
are not fair: nothing forces a call to be made or a connection to end.
The same holds for `Close` in `Stream` and `Start` in `NodeContent`; there, too,
every thread takes each lock finitely often.  In `Deployment` the steps together
are weakly fair: some thread runs on while one can, and a call ends, well or
badly; `Break` is not fair.  In `UserSync` the sync and every running child are
weakly fair each, being processes; `Begin`, failures and kills are not.

Deadlock checking is on for the engine; a run that is over stutters in
`Gone`.  It is off for remote calls, where a call to a lost node really hangs
(`LossIsContained` says when) and where `-I` and the race stop the system, and
for the content of a node, the slices, the syncs, the deployment and the key
manager, where all calls, commands, syncs and deployments end.

## 4. What is proved

Eight modules hold proofs: every safety invariant and action property of the
passing runs in section 3 is a theorem for every value of the constants.  One is
only proved: `OncePerNode`, by which a node runs a call at most once and a filed
answer stays (`RunsOnce`); of it `ImplementsGather` has the first part.

| module | holds for | theorems (property) |
|---|---|---|
| `TaskEngineProofs` | every set of tasks with every body | `TypeCorrect`, `WantsMet`, `FailurePropagates`, `PendingExact`, `RunsOnce`, `Implements` |
| `ControlProofs` | every finite set of nodes and every set of calls | `TypeCorrect`, `CountExact`, `GatheredComplete`, `RunsOnce`, `Implements` |
| `StreamProofs` | all calls, streams and ways to cut a read, functions that raise anywhere | `Inductive`, `OwnStream` (`OwnData`), `WholeStream` (`WholeOrError`), `PlaceIsKept` (`KeepsItsPlace`) |
| `NodeContentProofs` | every set of threads and components | `Inductive`, `ContentWhenReturned` (`ReturnsComplete`), `ContentWhenDone` (`DoneIsComplete`), `Exclusion` (`OneAtATime`) |
| `SlicesProofs` | every set of slices and layout of the pools | `TypeCorrect`, `AddressesUnique`; with `NamesTell`: `SlicesStay` (`StaysInItsSlice`), `CommandsDeliver` (`CommandDelivers`); `TenSlices` |
| `UserSyncProofs` | any users, domains, children, failures and syncs | `Inductive`, `SyncMakesItSo` (`SyncReaches`), `RolesMadeOnce` (`RolesBeforeChildren`), `NothingWantedIsTaken` (`WantedStays`) |
| `EndpointSyncProofs` | any catalogs, registrations, orders of lists, failures and syncs | `Inductive`, `Types`, `NoDoubles` (`NoDoubleMade`), `ServingKept` (`ServingIsKept`), `Reaches` (`SyncReaches`), `CanBeRepeated` (`RetryWorks`) |
| `DeploymentProofs` | every set of nodes, inventory with a controller, model closed under dependencies, schedule and number of failing commands | `Inductive`, `Types`, `NothingRunsTooEarly`, `AllCanBeRead`, `OkMeansComplete` |
| `DeploymentProofs`, last part, about `KeyManager` | every finite set of principals, any buffer, deployments, kills | `KeysAreKept`, `KeyTypes` (`KMTypeOK`), `PasswordIsOne` (`OnePassword`), `TornByKill` (`TornByKillOnly`) |

The assumptions on constants are the ones named in the modules, and TLC evaluates
them in the runs.  `Main` is not a task and only waits, bodies are sequences of
steps, `None` is nobody; for slices, those on numbers above; `Absent` and `Torn`
are no tables; `WantsAssumption`: the default domain is always registered
(`keystone.py:89`), and a name is registered once
(`ossync.py` asserts it at 99, 119 and 142); `ServersAssumption`: keystone grants
only to users it has; `InventoriesAssumption` and `ModelsAssumption`: there is a
node with the services of a controller, and a component is made after those it
is given, which `createmodel` cannot do otherwise; for the catalog,
`CatalogsAssumption`: an endpoint has its own id and is of a service that is there,
as keystone sees to, `WantsAssumption`: what the tests before the first change let
pass (`ossync.py` 376 to 391), `OrdersAssumption`: a list has everything once,
`BoundsAssumption`: ids are numbers.

*Task engine.*  `IInv` says that the mutex is held exactly by the waiter inside
`_taskify` (`MutexInv`), that the task found without a thread still has none
(`LookInv`), how `thr`, `pc`, `pending` and `failed` go together (`ThreadInv`),
and that all waits a body has passed have ended well (`StepInv`).  `WantsAreMet`
is not inductive without the last part, `NeverRestarted` not without the first
two.  From it follow `TypeCorrect`, `WantsMet`, `FailurePropagates`,
`PendingExact`, `RunsOnce` and `Implements`: every step of the engine is a step
of `TaskGraph` or a stutter under `Status`.

*Remote calls.*  The invariant gives every pair of call and node a stage from 0
(not sent) to 7 (filed), and says that the pipes, the running functions and the
handlers hold a call exactly at its stage (`Tracked`).  It is existential in the
stages, so that an answer that is lost on the way keeps its stage.  With it
`CountIsExact` is inductive: an answer that `HandlerApply` files cannot have been
filed before, so `to_process` and the missing answers shrink together.  From it
follow `TypeCorrect`, `CountExact`, `GatheredComplete`, `RunsOnce` and
`Implements` (`ScatterGather`).

*The pipe.*  What may follow a unit is determined by the unit (`Follows`): behind
the size of a chunk its first piece, behind its last piece the next size, behind
a zero size the size of another call.  `PipeInv` says that the pipe is such a
path, `ReaderInv` that the unit in front is the one the reader expects there,
unless it has come to the end of its stream.  `OwnData` alone says nothing of the
pipe and is not inductive.  That a function's data is then the beginning of its
stream takes the positions of the pieces in the flattened stream (`FlattenSeq`).
These follow by induction on the length, which is done with well-founded sets
of numbers (`LeastNumber`, `Induction`), since an induction theorem with a
predicate as parameter cannot be used.  All this is so also behind a function that
raised early: an input thread that has lost its place does not come to a body any
more, so those functions that end well have their own stream.  `PlaceIsKept` needs
one invariant more (`PlaceInv`): before that, and with the connection there, the
input thread is where it thinks it is.

*Content of a node.*  `LockInv` says that a lock is held by exactly the thread
that is inside its guard, `StackOK` that each frame of a stack stands at a step
of its guard's program which entered the next frame, and that the steps before
it have left what they are certain to leave; a clone leaves nothing for certain.
`Rank` orders the guards, so no thread is inside a guard twice.  `DoneInv` is then
what `Finish` sets a flag over, and `OneAtATime` is that two threads with the same
next step would hold the same lock.

*Slices.*  Machines of one name are one machine (`NamesAreUnique`), because
`Define` fails on a name that is taken, and offsets stay in the range of a
network; the latter needs that a command has begun before it boots
(`HasBegun`).  The rest is arithmetic: division with remainder is unique
(`Radix`), twice, so an address tells slice, network and offset.
`StaysInItsSlice` and `CommandDelivers` are proved from `NamesTell`: the prefix of
a slice selects its own names and no others.  The run `SlicesWipe` shows that
the condition is needed, `TenSlices` that slices 0 to 9 meet it.  `CommandInv`
follows a command through its parts: what is listed is what there is of the
slice, and later, what is asked for is still to fork, in a child, made or failed;
all else of the slice is in `kept`.

*Users.*  `SyncReaches` is about the end of a sync, the invariant about the way
there.  `SplitInv`: a user of the sync has no child yet, or is with exactly one, or
is as wanted.  `ChildOK` says what a child knows whoever else runs, `Progress` that
what its first user has and the calls it still has to make come to what the
user is to have; both survive the calls of other children because a user is
with one child only.  This holds for a sync that is alone (`Own`): `lost` or a
child of an earlier sync breaks it, as it does the property.

*Catalog.*  What a part of a sync calls is a filtered and flattened sequence in any
of the orders that lists and dictionaries may have.  The first part of the module
shows that the order never matters: `FlattenFacts` and `ThoseFacts` say which calls
are in such a sequence, and `Once` that no creation is in it twice.  The invariant
then speaks of the set of pending calls, one conjunct for each part.  `Indexed` says
that `srv_dict` and the listing are as the catalog is, but for double services
about to be deleted; `DoublesGo` that these have no endpoints; `MissingCome` and
`WantedThere` that wanted services are there or pending, once; `RegionsCome` the
same for regions.  `CreatesOnce` and `EndpointsCome` are what it is about: every offer
is served, or its creation or the new URL of the right endpoint is pending; every
endpoint serves an offer, is about to, or is pending to be deleted; and of two
endpoints in one place one goes.  Each call takes one of these for another, which
is why `SyncReaches`, itself about the end only, is kept.  `RegionIsOne` and
`UrlsFit` carry `Regular` from the listing to the part that relies on it: a service
that is created or overwritten in between must not spoil it, and for a spare
service that gets a new description its old endpoints count.  `NoDoubleMade`
needs less, `Sound`: without double services the listing is right on
irregular catalogs, too.  `Resumable` is `Repeatable` at every moment of a sync, not
only at its end, because `Raise` may come at any call; it is proved last, from
`Core`, with `IsAlone` for those endpoints whose new URL is still to come.

*Deployment.*  The tasks and their calls are given, so the first part of the
module is tables: the tasks a step names, the nodes a list of services is on
(all controllers, all workers or all), who was given which password, what each
step brings.  Everything is read off the definitions once, and the rest cites
the tables.  `PassedInv` says that what a step is for has happened when its task
is past it - those waited for have ended, the calls have left what they give
and make - which holds because nothing leaves the world and no task leaves its
end.  `ComposeInv` says that what was composed is there, and sent once `main`
waits.  `StartInv` is for the three tasks that do not wait for all they need:
`setup_mgr`, `key_glance` and `key_for_cinder_nova` are started late enough by
who starts them.  With these the calls of whatever step a task is at find
all they read and need (`CallsFine`), step by step along the waits, but for the two
calls of `MayLack`; so `ContentCanBeMade` is kept, and every step is `Timely`, which
is `NothingTooEarly`, an action property.  `OkIsComplete` follows from the
invariant (`AllEnd`: the goals have waited, directly or through others, for all
that was started; `ServicesUp`, `ExpectationsMet`).  `slow` and `Turns`, the bound of
the run, play no part: a step keeps the invariant whenever it is taken.  So do the
inventories and models of the run not.

*Key manager.*  `OnePassword` alone is not inductive: a deployment knows only the
file.  `GivenIsKept` says that what was ever given is in the file, or the file
cannot be loaded and no more is given; `MemoryIsAhead` that a deployment in the
middle of a write has at least what the file has, and agrees with it.  The
second makes the new text at least as long as the old one (`NotShorter`, by the
cardinalities of the two sets of principals), so nothing of the old text
stays behind the new one.

Only model-checked:

* the liveness properties (`Termination`, `LossIsContained`, `AnsweredUnlessRaised`,
  `ContentCallsEnd`, `SyncEnds`, `EndsOrRepeats` and the fairness part of
  `ImplementsGraph`), which are out of the prover's reach;
* the two properties that are violated, which are no theorems.

## 5. Plan

1. Done: the task engine and remote calls, with their proofs.
2. Done: `Stream`, `NodeContent`, `Slices`, `EndpointSync`.
3. Done: `Deployment`, `UserSync`, `KeyManager`.
4. Done: proofs for `KeyManager`, `Slices`, `NodeContent`, `Stream`, `UserSync`,
   `Deployment` and `EndpointSync`.
5. Perhaps: what galera and rabbit make of the calls that form their clusters
   (`mariadb.py` 19-53, `rabbitmq.py` 13-49), with the daemons as external parts.

## 6. Not modelled

* Configuration files (`cfgfile.py`): rendering is sequential text processing
  without states that a model could tell apart; what is read from where is in
  `Deployment`.  That `content_file` rewrites in place is said there (357).
* Package name mapping, inventory rules and address lookup (`invutil.py`,
  `netutils.py`), argument parsing, users and groups of the system
  (`usrgrp.py`), the shell scripts: the same.
* `localsh.py` runs commands; what they do is external.  Its thread that feeds a
  stream to a command may go on after the command (see the hazards).
* How galera, rabbit and ceph form their clusters, and what a deployment that is
  repeated does to them: it never waits for the right size (`mariadb.py:45`) and
  bootstraps anew on a random node.  What follows is up to the daemons; the calls
  themselves are in `Deployment`.
* Of the users in `UserSync`: passwords, which are not updated by themselves, the
  enabled flag, and names that differ in case only.  The description of a
  domain is read from the key `Description`, which nobody sets (`ossync.py:101`).
* Two deployments with one `creds.json` at a time.
* The payload archive and the log channel of a connection, which do not touch the
  state of calls; of `vbs.py` images, tags and generated files.
