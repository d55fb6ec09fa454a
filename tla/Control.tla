------------------------------ MODULE Control ------------------------------
(***************************************************************************)
(* Remote calls: speedling/control.py on the controller, and               *)
(* speedling/receiver.py on the nodes, with the calls of speedling/inv.py  *)
(* on top.                                                                 *)
(*                                                                         *)
(* A call is made by a task thread.  It puts one message into the queue of *)
(* every target node and then registers a context in ssh_messages; later   *)
(* it waits for the context's finalize lock.  Per node, a sender thread    *)
(* moves messages from the queue to the ssh pipe, the node's input thread  *)
(* starts a thread for each, their answers go back in the order they were  *)
(* produced, and an input_handler thread of the controller files them in   *)
(* the context.  The last answer releases finalize.                        *)
(*                                                                         *)
(* A message is represented by its call (the task_id).                     *)
(***************************************************************************)
EXTENDS Naturals, Sequences, FiniteSets

CONSTANTS
  Host,         \* the remote nodes with a connection (ssh_hosts)
  Call,         \* the calls (task_id, a fresh uuid each)
  Api,          \* Api[c]: "do_do", "do_diff" or "distribute"
  Identity,     \* may calls include the controller's own node (-I)?
  Flaky,        \* nodes whose ssh connection may end
  RemoteIsSlow, \* does a node answer only after the caller registered?
  Status,       \* how the called functions may end: "ok", "error" (raised)
  None

ASSUME HostAssumption == IsFiniteSet(Host)
ASSUME NoneAssumption == None \notin Host \cup Call \cup {"ok", "error"}
ASSUME ApiAssumption == Api \in [Call -> {"do_do", "do_diff", "distribute"}]
ASSUME KnobAssumption ==
  /\ Identity \in BOOLEAN
  /\ Flaky \subseteq Host
  /\ RemoteIsSlow \in BOOLEAN
  /\ Status \subseteq {"ok", "error"}

Answer == [call: Call, status: Status]

VARIABLES
  (* the calling threads *)
  pc,             \* pc[c]: where the call is
  targets,        \* targets[c]: the remote nodes of the call
  unsent,         \* unsent[c]: targets whose queue has not got the message
  local,          \* local[c]: is the controller's node among the hosts?
  local_succed,   \* local_succed[c]: has its part not raised?
  (* the controller *)
  queue,          \* queue[h]: ssh_ctx['queue']
  ssh_messages,   \* the calls with a registered context
  ssh_messages_mutex,  \* the node whose input_handler died with it, or None
  response_dicts, \* response_dicts[c][h]: the answer, None for {}
  to_process,     \* to_process[c]
  finalize,       \* finalize[c]: is the lock held?
  handler,        \* handler[h]: input_handler: "read", "apply" or "dead"
  real_msg,       \* real_msg[h]: the answer it has looked the context up for
  sender,         \* sender[h]: is the sender thread alive?
  (* ssh and the nodes *)
  connected,      \* connected[h]
  wire,           \* wire[h]: messages in the pipe to the node
  inline,         \* inline[h]: the stream call its input thread executes
  running,        \* running[h]: calls executed in threads
  response_queue, \* response_queue[h]: answers of the node, not yet sent
  back,           \* back[h]: answers in the pipe to the controller
  result          \* result[c][h]: how the function ended on the node

callVars == <<pc, targets, unsent, local, local_succed>>
ctxVars == <<ssh_messages, response_dicts, to_process, finalize>>
nodeVars == <<inline, running, response_queue, result>>
connVars == <<handler, real_msg, sender, connected>>
vars == <<callVars, queue, ctxVars, ssh_messages_mutex, connVars, wire,
          nodeVars, back>>

Phase == {"idle", "put", "local", "wait", "finalize", "delete", "check",
          "returned", "raised"}

TypeOK ==
  /\ pc \in [Call -> Phase]
  /\ targets \in [Call -> SUBSET Host]
  /\ unsent \in [Call -> SUBSET Host]
  /\ local \in [Call -> BOOLEAN]
  /\ local_succed \in [Call -> BOOLEAN]
  /\ queue \in [Host -> Seq(Call)]
  /\ ssh_messages \in SUBSET Call
  /\ ssh_messages_mutex \in Host \cup {None}
  /\ response_dicts \in [Call -> [Host -> Status \cup {None}]]
  /\ to_process \in [Call -> Nat]
  /\ finalize \in [Call -> BOOLEAN]
  /\ handler \in [Host -> {"read", "apply", "dead"}]
  /\ real_msg \in [Host -> Answer \cup {None}]
  /\ sender \in [Host -> BOOLEAN]
  /\ connected \in [Host -> BOOLEAN]
  /\ wire \in [Host -> Seq(Call)]
  /\ inline \in [Host -> Call \cup {None}]
  /\ running \in [Host -> SUBSET Call]
  /\ response_queue \in [Host -> Seq(Answer)]
  /\ back \in [Host -> Seq(Answer)]
  /\ result \in [Call -> [Host -> Status \cup {None}]]

Init ==
  /\ pc = [c \in Call |-> "idle"]
  /\ targets = [c \in Call |-> {}]
  /\ unsent = [c \in Call |-> {}]
  /\ local = [c \in Call |-> FALSE]
  /\ local_succed = [c \in Call |-> TRUE]
  /\ queue = [h \in Host |-> <<>>]
  /\ ssh_messages = {}
  /\ ssh_messages_mutex = None
  /\ response_dicts = [c \in Call |-> [h \in Host |-> None]]
  /\ to_process = [c \in Call |-> 0]
  /\ finalize = [c \in Call |-> FALSE]
  /\ handler = [h \in Host |-> "read"]
  /\ real_msg = [h \in Host |-> None]
  /\ sender = [h \in Host |-> TRUE]
  /\ connected = [h \in Host |-> TRUE]
  /\ wire = [h \in Host |-> <<>>]
  /\ inline = [h \in Host |-> None]
  /\ running = [h \in Host |-> {}]
  /\ response_queue = [h \in Host |-> <<>>]
  /\ back = [h \in Host |-> <<>>]
  /\ result = [c \in Call |-> [h \in Host |-> None]]

Goto(c, phase) == pc' = [pc EXCEPT ![c] = phase]

-----------------------------------------------------------------------------
(* The calling thread.                                                     *)

\* Which nodes the function is for.
Issue(c) ==
  /\ pc[c] = "idle"
  /\ \E T \in SUBSET Host, b \in {FALSE, Identity} :
       /\ targets' = [targets EXCEPT ![c] = T]
       /\ unsent' = [unsent EXCEPT ![c] = T]
       /\ local' = [local EXCEPT ![c] = b]
  /\ Goto(c, "put")
  /\ UNCHANGED <<local_succed, queue, ctxVars, ssh_messages_mutex, connVars,
                 wire, nodeVars, back>>

Put(c, h) ==  \* ssh_hosts[host]['queue'].put(...)
  /\ pc[c] = "put"
  /\ h \in unsent[c]
  /\ queue' = [queue EXCEPT ![h] = Append(@, c)]
  /\ unsent' = [unsent EXCEPT ![c] = @ \ {h}]
  /\ UNCHANGED <<pc, targets, local, local_succed, ctxVars,
                 ssh_messages_mutex, connVars, wire, nodeVars, back>>

\* do_do and do_diff take their own node out of the targets, distribute_* do
\* not.
OwnIsTarget(c) == local[c] /\ Api[c] = "distribute"

\* The own node has no connection, so no queue: a KeyError when its turn in
\* the loop comes.  What was put before is sent, and never gets a context.
PutOwn(c) ==
  /\ pc[c] = "put"
  /\ OwnIsTarget(c)
  /\ Goto(c, "raised")
  /\ UNCHANGED <<targets, unsent, local, local_succed, queue, ctxVars,
                 ssh_messages_mutex, connVars, wire, nodeVars, back>>

\* Faulty variant: the targets still to be sent are counted, not all.
RegisterUnsent(c) ==
  /\ pc[c] = "put"
  /\ unsent[c] = {}
  /\ ssh_messages_mutex = None
  /\ ssh_messages' = ssh_messages \cup {c}
  /\ to_process' = [to_process EXCEPT ![c] = Cardinality(unsent[c])]
  /\ finalize' = [finalize EXCEPT ![c] = targets[c] # {}]
  /\ Goto(c, IF local[c] THEN "local" ELSE "wait")
  /\ UNCHANGED <<targets, unsent, local, local_succed, queue, response_dicts,
                 ssh_messages_mutex, connVars, wire, nodeVars, back>>

\* Only now the context is made known to the input handlers.
Register(c) ==
  /\ pc[c] = "put"
  /\ unsent[c] = {} /\ ~OwnIsTarget(c)
  /\ ssh_messages_mutex = None
  /\ ssh_messages' = ssh_messages \cup {c}
  /\ to_process' = [to_process EXCEPT ![c] = Cardinality(targets[c])]
  /\ finalize' = [finalize EXCEPT ![c] = targets[c] # {}]
  /\ Goto(c, IF local[c] THEN "local" ELSE "wait")
  /\ UNCHANGED <<targets, unsent, local, local_succed, queue, response_dicts,
                 ssh_messages_mutex, connVars, wire, nodeVars, back>>

\* The controller's own part.  do_do keeps an exception for later, do_diff
\* lets it pass: the wait is skipped, the context stays registered.
RunLocally(c) ==
  /\ pc[c] = "local"
  /\ \/ /\ Goto(c, "wait")
        /\ UNCHANGED local_succed
     \/ /\ Goto(c, IF Api[c] = "do_diff" THEN "raised" ELSE "wait")
        /\ local_succed' = [local_succed EXCEPT ![c] = FALSE]
  /\ UNCHANGED <<targets, unsent, local, queue, ctxVars, ssh_messages_mutex,
                 connVars, wire, nodeVars, back>>

WaitLookup(c) ==  \* task_ctx = ssh_messages[task_id]
  /\ pc[c] = "wait"
  /\ ssh_messages_mutex = None
  /\ Goto(c, "finalize")
  /\ UNCHANGED <<targets, unsent, local, local_succed, queue, ctxVars,
                 ssh_messages_mutex, connVars, wire, nodeVars, back>>

WaitFinalize(c) ==  \* task_ctx['finalize'].acquire()
  /\ pc[c] = "finalize"
  /\ ~finalize[c]
  /\ finalize' = [finalize EXCEPT ![c] = TRUE]
  /\ Goto(c, "delete")
  /\ UNCHANGED <<targets, unsent, local, local_succed, queue, ssh_messages,
                 response_dicts, to_process, ssh_messages_mutex, connVars,
                 wire, nodeVars, back>>

WaitDelete(c) ==  \* del ssh_messages[task_id]
  /\ pc[c] = "delete"
  /\ ssh_messages_mutex = None
  /\ ssh_messages' = ssh_messages \ {c}
  /\ Goto(c, "check")
  /\ UNCHANGED <<targets, unsent, local, local_succed, queue, response_dicts,
                 to_process, finalize, ssh_messages_mutex, connVars, wire,
                 nodeVars, back>>

\* do_do asserts len(THIS_NODE) == 0 exactly when it is not; then
\* check_response raises if some status is not zero, and at last do_do
\* raises what its own part raised.
AssertHolds(c) == ~(local[c] /\ Api[c] = "do_do")

\* Faulty variant: the answers of the nodes are not looked at.
OwnPartWell(c) == AssertHolds(c) /\ local_succed[c]

AllWell(c) ==
  /\ AssertHolds(c)
  /\ \A h \in targets[c] : response_dicts[c][h] = "ok"
  /\ local_succed[c]

CheckResponse(c) ==
  /\ pc[c] = "check"
  /\ Goto(c, IF AllWell(c) THEN "returned" ELSE "raised")
  /\ UNCHANGED <<targets, unsent, local, local_succed, queue, ctxVars,
                 ssh_messages_mutex, connVars, wire, nodeVars, back>>

-----------------------------------------------------------------------------
(* The threads of one connection on the controller.                        *)

SenderSend(h) ==
  /\ sender[h]
  /\ queue[h] # <<>>
  /\ queue' = [queue EXCEPT ![h] = Tail(@)]
  /\ \/ /\ connected[h]
        /\ wire' = [wire EXCEPT ![h] = Append(@, Head(queue[h]))]
        /\ UNCHANGED sender
     \/ /\ ~connected[h]  \* EPIPE: the thread ends
        /\ sender' = [sender EXCEPT ![h] = FALSE]
        /\ UNCHANGED wire
  /\ UNCHANGED <<callVars, ctxVars, ssh_messages_mutex, handler, real_msg,
                 connected, nodeVars, back>>

\* The answer is read, the mutex taken and the context looked up.  A missing
\* context is a KeyError between acquire and release: the thread ends and
\* the mutex stays taken.
HandlerLookup(h) ==
  /\ handler[h] = "read"
  /\ back[h] # <<>>
  /\ ssh_messages_mutex = None
  /\ back' = [back EXCEPT ![h] = Tail(@)]
  /\ \/ /\ Head(back[h]).call \in ssh_messages
        /\ handler' = [handler EXCEPT ![h] = "apply"]
        /\ real_msg' = [real_msg EXCEPT ![h] = Head(back[h])]
        /\ UNCHANGED ssh_messages_mutex
     \/ /\ Head(back[h]).call \notin ssh_messages
        /\ handler' = [handler EXCEPT ![h] = "dead"]
        /\ ssh_messages_mutex' = h
        /\ UNCHANGED real_msg
  /\ UNCHANGED <<callVars, queue, ctxVars, sender, connected, wire, nodeVars>>

\* Faulty variants of LastAnswer: to_process is tested before it is lowered,
\* with a test that is one off; the first answer is taken for the last.
LastButOne(c) == to_process[c] = 2
AnyAnswer(c) == to_process[c] # 0

\* Is this the answer that makes to_process zero?
LastAnswer(c) == to_process[c] = 1

\* Under the context's own mutex.
HandlerApply(h) ==
  /\ handler[h] = "apply"
  /\ LET c == real_msg[h].call
     IN  /\ response_dicts' = [response_dicts EXCEPT ![c][h] = real_msg[h].status]
         /\ to_process' = [to_process EXCEPT ![c] = @ - 1]
         /\ finalize' = [finalize EXCEPT ![c] = @ /\ ~LastAnswer(c)]
  /\ handler' = [handler EXCEPT ![h] = "read"]
  /\ real_msg' = [real_msg EXCEPT ![h] = None]
  /\ UNCHANGED <<callVars, queue, ssh_messages, ssh_messages_mutex, sender,
                 connected, wire, nodeVars, back>>

\* Faulty variant: the thread ends with the mutex taken.
HandlerEndLocked(h) ==
  /\ handler[h] = "read"
  /\ ~connected[h]
  /\ back[h] = <<>>
  /\ ssh_messages_mutex = None
  /\ ssh_messages_mutex' = h
  /\ handler' = [handler EXCEPT ![h] = "dead"]
  /\ UNCHANGED <<callVars, queue, ctxVars, real_msg, sender, connected, wire,
                 nodeVars, back>>

\* The pipe is at its end: the flag ssh_ctx['terminate'] is set, nobody
\* reads it, and the thread returns.
HandlerEnd(h) ==
  /\ handler[h] = "read"
  /\ ~connected[h]
  /\ back[h] = <<>>
  /\ handler' = [handler EXCEPT ![h] = "dead"]
  /\ UNCHANGED <<callVars, queue, ctxVars, ssh_messages_mutex, real_msg, sender,
                 connected, wire, nodeVars, back>>

-----------------------------------------------------------------------------
(* The node.                                                               *)

IsStream(c) == Api[c] = "distribute"

\* A function call gets a thread; a stream call keeps the input thread.
NodeRead(h) ==
  /\ wire[h] # <<>>
  /\ inline[h] = None
  /\ wire' = [wire EXCEPT ![h] = Tail(@)]
  /\ LET c == Head(wire[h])
     IN  \/ /\ IsStream(c)
            /\ inline' = [inline EXCEPT ![h] = c]
            /\ UNCHANGED running
         \/ /\ ~IsStream(c)
            /\ running' = [running EXCEPT ![h] = @ \cup {c}]
            /\ UNCHANGED inline
  /\ UNCHANGED <<callVars, queue, ctxVars, ssh_messages_mutex, connVars,
                 response_queue, result, back>>

\* task_exec: the function ends or raises, the answer is queued.
TaskExec(h, c) ==
  /\ c \in running[h] \/ inline[h] = c
  /\ RemoteIsSlow => pc[c] \notin {"idle", "put"}
  /\ \E s \in Status :
       /\ result' = [result EXCEPT ![c][h] = s]
       /\ response_queue' =
            [response_queue EXCEPT ![h] = Append(@, [call |-> c, status |-> s])]
  /\ running' = [running EXCEPT ![h] = @ \ {c}]
  /\ inline' = [inline EXCEPT ![h] = IF @ = c THEN None ELSE @]
  /\ UNCHANGED <<callVars, queue, ctxVars, ssh_messages_mutex, connVars, wire,
                 back>>

AnswerHandler(h) ==  \* an answer for a closed pipe is lost
  /\ response_queue[h] # <<>>
  /\ response_queue' = [response_queue EXCEPT ![h] = Tail(@)]
  /\ back' = [back EXCEPT ![h] =
                IF connected[h] THEN Append(@, Head(response_queue[h])) ELSE @]
  /\ UNCHANGED <<callVars, queue, ctxVars, ssh_messages_mutex, connVars, wire,
                 inline, running, result>>

\* The connection ends; what is in the pipes may be lost from some point on.
Disconnect(h) ==
  /\ h \in Flaky
  /\ connected[h]
  /\ connected' = [connected EXCEPT ![h] = FALSE]
  /\ \E n \in 0 .. Len(wire[h]) :
       wire' = [wire EXCEPT ![h] = SubSeq(@, 1, n)]
  /\ \E n \in 0 .. Len(back[h]) :
       back' = [back EXCEPT ![h] = SubSeq(@, 1, n)]
  /\ UNCHANGED <<callVars, queue, ctxVars, ssh_messages_mutex, handler,
                 real_msg, sender, nodeVars>>

-----------------------------------------------------------------------------

Proceed(c) ==
  \/ \E h \in Host : Put(c, h)
  \/ PutOwn(c)
  \/ Register(c)
  \/ RunLocally(c)
  \/ WaitLookup(c)
  \/ WaitFinalize(c)
  \/ WaitDelete(c)
  \/ CheckResponse(c)

InputHandler(h) == HandlerLookup(h) \/ HandlerApply(h) \/ HandlerEnd(h)

Execute(h) == \E c \in Call : TaskExec(h, c)

Over(c) == pc[c] \in {"returned", "raised"}

\* Everything that was asked for is done: the controller may end.
Gone == (\A c \in Call : pc[c] = "idle" \/ Over(c)) /\ UNCHANGED vars

Next ==
  \/ \E c \in Call : Issue(c) \/ Proceed(c)
  \/ \E h \in Host : \/ SenderSend(h) \/ InputHandler(h)
                     \/ NodeRead(h) \/ Execute(h) \/ AnswerHandler(h)
                     \/ Disconnect(h)
  \/ Gone

SafeSpec == Init /\ [][Next]_vars

(***************************************************************************)
(* Every thread of the controller and of the nodes is scheduled, and the   *)
(* functions return.  No call has to be made, no connection has to end.    *)
(***************************************************************************)
Spec ==
  /\ SafeSpec
  /\ \A c \in Call : WF_vars(Proceed(c))
  /\ \A h \in Host : /\ WF_vars(SenderSend(h))
                     /\ WF_vars(InputHandler(h))
                     /\ WF_vars(NodeRead(h))
                     /\ \A c \in Call : WF_vars(TaskExec(h, c))
                     /\ WF_vars(AnswerHandler(h))

-----------------------------------------------------------------------------
(* Properties.                                                             *)

\* wait_for_all_response went past finalize.
Gathered(c) == pc[c] \in {"delete", "check", "returned"}

(***************************************************************************)
(* A caller that is past the wait has the answer of every target, and it   *)
(* is the one that node gave to this very call.                            *)
(***************************************************************************)
GatheredIsComplete ==
  \A c \in Call : Gathered(c) =>
    \A h \in targets[c] : /\ result[c][h] # None
                          /\ response_dicts[c][h] = result[c][h]

Missing(c) == {h \in targets[c] : response_dicts[c][h] = None}

(***************************************************************************)
(* to_process counts the answers that are missing, so it never passes zero *)
(* and the lock is free only when nothing is missing: finalize.release()   *)
(* happens once per call.                                                  *)
(***************************************************************************)
CountIsExact ==
  \A c \in ssh_messages :
    /\ to_process[c] = Cardinality(Missing(c))
    /\ ~finalize[c] => Missing(c) = {}

(***************************************************************************)
(* A node runs a call at most once, and an answer once filed stays.        *)
(***************************************************************************)
OncePerNode ==
  [][\A c \in Call, h \in Host :
       /\ result[c][h] # None => result'[c][h] = result[c][h]
       /\ response_dicts[c][h] # None => response_dicts'[c][h] = response_dicts[c][h]]_vars

(***************************************************************************)
(* Every call that was made ends.                                          *)
(***************************************************************************)
CallsEnd == \A c \in Call : pc[c] # "idle" ~> Over(c)

(***************************************************************************)
(* Losing a connection holds up only the calls to that node.               *)
(***************************************************************************)
LossIsContained ==
  \A c \in Call :
    pc[c] # "idle" ~> (Over(c) \/ \E h \in targets[c] : ~connected[h])

(***************************************************************************)
(* Remote calls implement ScatterGather.                                   *)
(***************************************************************************)
Verdict ==
  [c \in Call |-> CASE pc[c] = "returned" -> "ok"
                    [] pc[c] = "raised" -> "error"
                    [] OTHER -> None]

Gather == INSTANCE ScatterGather WITH
            issued <- {c \in Call : pc[c] # "idle"},
            verdict <- Verdict

ImplementsGather == Gather!Spec

-----------------------------------------------------------------------------
(* The inductive invariant behind the safety properties.                   *)

(***************************************************************************)
(* stage[c][h] numbers the way of call c to node h and back: 0 before it   *)
(* is put, 1 queue, 2 wire, 3 executed, 4 response_queue, 5 back, 6 looked *)
(* up, 7 filed.  Nothing is at two places, whatever was lost on the way.   *)
(***************************************************************************)
CallsAt(pipe, stage, n) ==
  \A h \in Host : \A i \in DOMAIN pipe[h] :
    /\ stage[pipe[h][i]][h] = n
    /\ \A j \in DOMAIN pipe[h] : pipe[h][i] = pipe[h][j] => i = j

AnswersAt(pipe, stage, res, n) ==
  \A h \in Host : \A i \in DOMAIN pipe[h] :
    /\ stage[pipe[h][i].call][h] = n
    /\ pipe[h][i].status = res[pipe[h][i].call][h]
    /\ \A j \in DOMAIN pipe[h] : pipe[h][i].call = pipe[h][j].call => i = j

SentInv(stage) ==
  \A c \in Call, h \in Host :
    /\ stage[c][h] # 0 => h \in targets[c] /\ pc[c] # "idle"
    /\ h \in unsent[c] => stage[c][h] = 0 /\ h \in targets[c]

ResultInv(stage) ==
  \A c \in Call, h \in Host :
    /\ result[c][h] # None <=> stage[c][h] >= 4
    /\ response_dicts[c][h] # None <=> stage[c][h] = 7
    /\ stage[c][h] = 7 => response_dicts[c][h] = result[c][h]

NodeInv(stage) ==
  \A c \in Call, h \in Host : c \in running[h] \/ inline[h] = c => stage[c][h] = 3

HandlerInv(stage) ==
  \A h \in Host : handler[h] = "apply" =>
    /\ real_msg[h] \in Answer
    /\ stage[real_msg[h].call][h] = 6
    /\ real_msg[h].status = result[real_msg[h].call][h]
    /\ real_msg[h].call \in ssh_messages

Tracked(stage) ==
  /\ SentInv(stage)
  /\ ResultInv(stage)
  /\ CallsAt(queue, stage, 1)
  /\ CallsAt(wire, stage, 2)
  /\ NodeInv(stage)
  /\ AnswersAt(response_queue, stage, result, 4)
  /\ AnswersAt(back, stage, result, 5)
  /\ HandlerInv(stage)

\* When the context of a call is registered, and what its caller knows.
PhaseInv ==
  \A c \in Call :
    /\ pc[c] \in {"idle", "put"} => /\ c \notin ssh_messages
                                   /\ \A h \in Host : response_dicts[c][h] = None
    /\ pc[c] = "idle" => unsent[c] = {} /\ targets[c] = {}
    /\ pc[c] \in {"local", "wait", "finalize", "delete"} => c \in ssh_messages
    /\ Gathered(c) => Missing(c) = {}

IInv ==
  /\ TypeOK
  /\ CountIsExact
  /\ PhaseInv
  /\ \E stage \in [Call -> [Host -> 0 .. 7]] : Tracked(stage)

=============================================================================
