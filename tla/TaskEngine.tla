----------------------------- MODULE TaskEngine -----------------------------
(***************************************************************************)
(* The task engine of the controller: _taskify, task_wants,                *)
(* task_will_need and the thread body _finish_log of                       *)
(* speedling/facility.py, run by speedling/sl.py:main.                     *)
(*                                                                         *)
(* Every task runs in a thread of its own.  A task body is a sequence of   *)
(* steps: it waits for other tasks (task_wants), it only makes sure they   *)
(* are started (task_will_need), or it does work of its own, which may     *)
(* raise.  The list a task got by task_add_wants is its first "want" step. *)
(***************************************************************************)
EXTENDS Naturals, Sequences

CONSTANTS
  Task,     \* task callables
  Main,     \* the main thread, which only waits for the goals
  Body,     \* Body[w]: the steps of w
  None      \* no thread, no task

Waiter == Task \cup {Main}
Step == [kind: {"want", "need", "work"}, tasks: SUBSET Task]

ASSUME MainAssumption == Main \notin Task /\ None \notin Waiter
ASSUME BodyAssumption == Body \in [Waiter -> Seq(Step)]
ASSUME MainOnlyWaits == \A i \in DOMAIN Body[Main] : Body[Main][i].kind = "want"

\* All tasks w names in its steps of one kind.
TasksOf(w, kind) ==
  UNION { Body[w][i].tasks : i \in {j \in DOMAIN Body[w] : Body[w][j].kind = kind} }

Wants == [w \in Waiter |-> TasksOf(w, "want")]
Needs == [w \in Waiter |-> TasksOf(w, "need")]

VARIABLES
  thr,              \* thr[t]: the task's thread attribute: unset, alive, dead
  failed,           \* failed[w]: the task's failed flag; for Main: it raised
  FAILED,           \* the module's list of failed tasks, as a set
  pending,          \* the module's set of unfinished tasks
  task_sync_mutex,  \* the waiter inside _taskify, or None
  pc,               \* where each thread is
  step,             \* index of the body step each thread is at
  todo,             \* arguments _taskify has not looked at yet
  task              \* the argument _taskify found without thread, or None

vars == <<thr, failed, FAILED, pending, task_sync_mutex, pc, step, todo, task>>

TypeOK ==
  /\ thr \in [Task -> {"unset", "alive", "dead"}]
  /\ failed \in [Waiter -> BOOLEAN]
  /\ FAILED \in SUBSET Task
  /\ pending \in SUBSET Task
  /\ task_sync_mutex \in Waiter \cup {None}
  /\ pc \in [Waiter -> {"idle", "run", "taskify", "join", "finally", "exit", "done"}]
  /\ step \in [Waiter -> Nat]
  /\ todo \in [Waiter -> SUBSET Task]
  /\ task \in [Waiter -> Task \cup {None}]

Init ==
  /\ thr = [t \in Task |-> "unset"]
  /\ failed = [w \in Waiter |-> FALSE]
  /\ FAILED = {}
  /\ pending = {}
  /\ task_sync_mutex = None
  /\ pc = [w \in Waiter |-> IF w = Main THEN "run" ELSE "idle"]
  /\ step = [w \in Waiter |-> 1]
  /\ todo = [w \in Waiter |-> {}]
  /\ task = [w \in Waiter |-> None]

-----------------------------------------------------------------------------
(* The steps of a task body.                                               *)

At(w, kinds) ==
  /\ pc[w] = "run"
  /\ step[w] \in DOMAIN Body[w]
  /\ Body[w][step[w]].kind \in kinds

\* The exception leaves t(): FAILED.append(t); t.failed = True; raise.
\* In the main thread it leaves main().
Raise(w) ==
  /\ FAILED' = IF w = Main THEN FAILED ELSE FAILED \cup {w}
  /\ failed' = [failed EXCEPT ![w] = TRUE]
  /\ pc' = [pc EXCEPT ![w] = IF w = Main THEN "done" ELSE "finally"]
  /\ UNCHANGED step

Advance(w) ==
  /\ step' = [step EXCEPT ![w] = @ + 1]
  /\ pc' = [pc EXCEPT ![w] = "run"]
  /\ UNCHANGED <<failed, FAILED>>

\* Work of the task's own: files, remote calls.
Work(w) ==
  /\ At(w, {"work"})
  /\ Advance(w) \/ Raise(w)
  /\ UNCHANGED <<thr, pending, task_sync_mutex, todo, task>>

-----------------------------------------------------------------------------
(* _taskify: under task_sync_mutex, a thread for every task without one.   *)

\* Faulty variant: without the mutex.
TaskifyEnterUnlocked(w) ==
  /\ At(w, {"want", "need"})
  /\ task_sync_mutex' = w
  /\ todo' = [todo EXCEPT ![w] = Body[w][step[w]].tasks]
  /\ pc' = [pc EXCEPT ![w] = "taskify"]
  /\ UNCHANGED <<thr, failed, FAILED, pending, step, task>>

TaskifyEnter(w) ==
  /\ At(w, {"want", "need"})
  /\ task_sync_mutex = None
  /\ task_sync_mutex' = w
  /\ todo' = [todo EXCEPT ![w] = Body[w][step[w]].tasks]
  /\ pc' = [pc EXCEPT ![w] = "taskify"]
  /\ UNCHANGED <<thr, failed, FAILED, pending, step, task>>

\* Faulty variant: the failed flag is cleared of every argument.
TaskifyLookClears(w, t) ==
  /\ pc[w] = "taskify"
  /\ task[w] = None
  /\ t \in todo[w]
  /\ todo' = [todo EXCEPT ![w] = @ \ {t}]
  /\ task' = [task EXCEPT ![w] = IF thr[t] = "unset" THEN t ELSE None]
  /\ failed' = [failed EXCEPT ![t] = FALSE]
  /\ UNCHANGED <<thr, FAILED, pending, task_sync_mutex, pc, step>>

\* hasattr(task, 'thr'), and task.failed = False when it has none
TaskifyLook(w, t) ==
  /\ pc[w] = "taskify"
  /\ task[w] = None
  /\ t \in todo[w]
  /\ todo' = [todo EXCEPT ![w] = @ \ {t}]
  /\ \/ /\ thr[t] = "unset"
        /\ task' = [task EXCEPT ![w] = t]
        /\ failed' = [failed EXCEPT ![t] = FALSE]
     \/ /\ thr[t] # "unset"
        /\ UNCHANGED <<task, failed>>
  /\ UNCHANGED <<thr, FAILED, pending, task_sync_mutex, pc, step>>

\* Faulty variant: starts the thread of an argument that has one.
TaskifyStartAny(w) ==
  /\ pc[w] = "taskify"
  /\ pending' = pending \cup {task[w]}
  /\ task' = [task EXCEPT ![w] = None]
  /\ UNCHANGED <<thr, failed, FAILED, task_sync_mutex, pc, step, todo>>

\* task.thr = Thread(...); pending.add(task); task.thr.start()
TaskifyStart(w) ==
  /\ pc[w] = "taskify"
  /\ task[w] # None
  /\ thr' = [thr EXCEPT ![task[w]] = "alive"]
  /\ pending' = pending \cup {task[w]}
  /\ pc' = [pc EXCEPT ![task[w]] = "run"]
  /\ step' = [step EXCEPT ![task[w]] = 1]
  /\ task' = [task EXCEPT ![w] = None]
  /\ UNCHANGED <<failed, FAILED, task_sync_mutex, todo>>

\* The mutex is released; task_will_need returns, task_wants goes on to join.
TaskifyLeave(w) ==
  /\ pc[w] = "taskify"
  /\ task[w] = None
  /\ todo[w] = {}
  /\ task_sync_mutex' = None
  /\ \/ /\ Body[w][step[w]].kind = "need"
        /\ Advance(w)
     \/ /\ Body[w][step[w]].kind = "want"
        /\ pc' = [pc EXCEPT ![w] = "join"]
        /\ UNCHANGED <<step, failed, FAILED>>
  /\ UNCHANGED <<thr, pending, todo, task>>

-----------------------------------------------------------------------------
(* The rest of task_wants: join every thread, then fail late.              *)

\* Faulty variant: the first join that returns ends the wait.
JoinedOne(w) ==
  /\ pc[w] = "join"
  /\ \E t \in Body[w][step[w]].tasks : thr[t] = "dead"

Joined(w) ==
  /\ pc[w] = "join"
  /\ \A t \in Body[w][step[w]].tasks : thr[t] = "dead"

\* Faulty variant of SomeFailed.
AllFailed(w) == \A t \in Body[w][step[w]].tasks : failed[t]

SomeFailed(w) == \E t \in Body[w][step[w]].tasks : failed[t]

JoinOk(w) ==
  /\ Joined(w)
  /\ ~SomeFailed(w)
  /\ Advance(w)
  /\ UNCHANGED <<thr, pending, task_sync_mutex, todo, task>>

LateFail(w) ==  \* raise util.TaskAbort
  /\ Joined(w)
  /\ SomeFailed(w)
  /\ Raise(w)
  /\ UNCHANGED <<thr, pending, task_sync_mutex, todo, task>>

-----------------------------------------------------------------------------
(* The end of a thread.                                                    *)

Return(w) ==
  /\ pc[w] = "run"
  /\ step[w] = Len(Body[w]) + 1
  /\ pc' = [pc EXCEPT ![w] = IF w = Main THEN "done" ELSE "finally"]
  /\ UNCHANGED <<thr, failed, FAILED, pending, task_sync_mutex, step, todo, task>>

\* Faulty variants: the task stays pending; the mutex is not released.
FinallyKept(t) ==
  /\ pc[t] = "finally"
  /\ task_sync_mutex = None
  /\ pc' = [pc EXCEPT ![t] = "exit"]
  /\ UNCHANGED <<thr, failed, FAILED, pending, task_sync_mutex, step, todo, task>>

FinallyLocked(t) ==
  /\ pc[t] = "finally"
  /\ task_sync_mutex = None
  /\ task_sync_mutex' = t
  /\ pending' = pending \ {t}
  /\ pc' = [pc EXCEPT ![t] = "exit"]
  /\ UNCHANGED <<thr, failed, FAILED, step, todo, task>>

Finally(t) ==  \* the finally block: pending.remove(t) under the mutex
  /\ pc[t] = "finally"
  /\ task_sync_mutex = None
  /\ pending' = pending \ {t}
  /\ pc' = [pc EXCEPT ![t] = "exit"]
  /\ UNCHANGED <<thr, failed, FAILED, task_sync_mutex, step, todo, task>>

Exit(t) ==  \* is_alive() turns false and join() returns
  /\ pc[t] = "exit"
  /\ thr' = [thr EXCEPT ![t] = "dead"]
  /\ pc' = [pc EXCEPT ![t] = "done"]
  /\ UNCHANGED <<failed, FAILED, pending, task_sync_mutex, step, todo, task>>

-----------------------------------------------------------------------------

Taskify(w) ==
  \/ TaskifyEnter(w)
  \/ \E t \in Task : TaskifyLook(w, t)
  \/ TaskifyStart(w)
  \/ TaskifyLeave(w)

Thread(w) ==
  \/ Work(w)
  \/ Taskify(w)
  \/ JoinOk(w)
  \/ LateFail(w)
  \/ Return(w)

Ending(t) == Finally(t) \/ Exit(t)

\* Nothing is left to do: the main program is over, every started thread died.
Over ==
  /\ pc[Main] = "done"
  /\ \A t \in Task : thr[t] # "alive"

\* The process is gone; any other state without a successor is a deadlock.
Gone == Over /\ UNCHANGED vars

Next ==
  \/ \E w \in Waiter : Thread(w)
  \/ \E t \in Task : Ending(t)
  \/ Gone

SafeSpec == Init /\ [][Next]_vars

(***************************************************************************)
(* The operating system runs every thread.  A body calls _taskify finitely *)
(* often, so the mutex is free from some point on until w takes it: weak   *)
(* fairness is enough.  Work is assumed to return.                         *)
(***************************************************************************)
Spec ==
  /\ SafeSpec
  /\ \A w \in Waiter : WF_vars(Thread(w))
  /\ \A t \in Task : WF_vars(Ending(t))

-----------------------------------------------------------------------------
(* Properties.                                                             *)

\* Did the body of w end, and end well?
Ended(w) == pc[w] \in {"finally", "exit", "done"}
EndedOk(w) == Ended(w) /\ ~failed[w]

(***************************************************************************)
(* A task that went past a task_wants call really has those results: all   *)
(* of them had ended, without failure (facility.py:608-621, "late fail").  *)
(***************************************************************************)
WantsAreMet ==
  \A w \in Waiter : \A i \in DOMAIN Body[w] :
    (i < step[w] /\ Body[w][i].kind = "want") =>
      \A t \in Body[w][i].tasks : thr[t] = "dead" /\ ~failed[t]

(***************************************************************************)
(* Nothing ends well on top of a failure: if a task (or the main program,  *)
(* which then logs "Seams ok..") ended well, all tasks it waits for did.   *)
(***************************************************************************)
NoSuccessOverFailure ==
  \A w \in Waiter : EndedOk(w) => \A t \in Wants[w] : EndedOk(t)

(***************************************************************************)
(* pending holds exactly the started tasks that are not over, so that      *)
(* pending.remove in the finally block always finds its task.              *)
(***************************************************************************)
PendingIsExact ==
  pending = {t \in Task : pc[t] \in {"run", "taskify", "join", "finally"}}

RunsForward ==
  \A t \in Task : /\ thr[t] # "unset" => step'[t] >= step[t]
                 /\ Ended(t) => Ended(t)'

(***************************************************************************)
(* A task is run once: a thread never goes back in its body, and is never  *)
(* revived (the guarantee of the hasattr test under the mutex).            *)
(***************************************************************************)
NeverRestarted == [][RunsForward]_vars

(***************************************************************************)
(* The main program and every thread it caused come to an end.             *)
(***************************************************************************)
Termination == <>Over

(***************************************************************************)
(* The engine implements TaskGraph.                                        *)
(***************************************************************************)
Status ==
  [w \in Waiter |->
     IF pc[w] = "idle" THEN "idle"
     ELSE IF ~Ended(w) THEN "running"
     ELSE IF failed[w] THEN "failed" ELSE "ok"]

Graph == INSTANCE TaskGraph WITH status <- Status
ImplementsGraph == Graph!Spec

-----------------------------------------------------------------------------
(* The inductive invariant behind the safety properties.                   *)

\* _taskify is a critical section.
MutexInv == \A w \in Waiter : pc[w] = "taskify" <=> task_sync_mutex = w

\* The thread-less task found in _taskify stays thread-less until it is
\* started: the mutex makes test and assignment one step.
LookInv ==
  \A w \in Waiter :
    /\ pc[w] = "taskify" => todo[w] \subseteq Body[w][step[w]].tasks
    /\ task[w] # None => /\ pc[w] = "taskify"
                         /\ task[w] \in Body[w][step[w]].tasks
                         /\ thr[task[w]] = "unset"

ThreadInv ==
  /\ pc[Main] \notin {"idle", "finally", "exit"}
  /\ \A t \in Task : /\ thr[t] = "unset" <=> pc[t] = "idle"
                     /\ thr[t] = "dead" <=> pc[t] = "done"

StepInv ==
  \A w \in Waiter :
    /\ step[w] \in 1 .. Len(Body[w]) + 1
    /\ pc[w] = "taskify" => /\ step[w] \in DOMAIN Body[w]
                            /\ Body[w][step[w]].kind \in {"want", "need"}
    /\ pc[w] = "join" => /\ step[w] \in DOMAIN Body[w]
                         /\ Body[w][step[w]].kind = "want"
    /\ pc[w] = "idle" => step[w] = 1
    /\ failed[w] => Ended(w)
    /\ EndedOk(w) => step[w] = Len(Body[w]) + 1

IInv ==
  /\ TypeOK
  /\ MutexInv
  /\ LookInv
  /\ ThreadInv
  /\ StepInv
  /\ WantsAreMet

=============================================================================
