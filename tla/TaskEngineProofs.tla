-------------------------- MODULE TaskEngineProofs --------------------------
(***************************************************************************)
(* Proofs about TaskEngine, for every set of tasks and every body.  IInv   *)
(* is inductive; the safety properties follow from it, and with it every   *)
(* step of the engine is a step of TaskGraph or leaves its state alone.    *)
(***************************************************************************)
EXTENDS TaskEngine, TLAPS

LEMMA BodyFacts ==
  ASSUME NEW w \in Waiter
  PROVE  /\ Body[w] \in Seq(Step)
         /\ Len(Body[w]) \in Nat
         /\ DOMAIN Body[w] = 1 .. Len(Body[w])
         /\ \A i \in DOMAIN Body[w] :
              /\ Body[w][i].kind \in {"want", "need", "work"}
              /\ Body[w][i].tasks \subseteq Task
<1>1. Body[w] \in Seq(Step)
  BY BodyAssumption
<1>2. Len(Body[w]) \in Nat /\ DOMAIN Body[w] = 1 .. Len(Body[w])
  BY <1>1
<1>3. \A i \in DOMAIN Body[w] : Body[w][i] \in Step
  BY <1>1, <1>2
<1> QED
  BY <1>1, <1>2, <1>3 DEF Step

LEMMA MainDoesNoWork ==
  \A i \in DOMAIN Body[Main] : Body[Main][i].kind = "want"
BY MainOnlyWaits

LEMMA InitIInv == Init => IInv
<1> SUFFICES ASSUME Init PROVE IInv
  OBVIOUS
<1>1. TypeOK
  BY DEF Init, TypeOK, Waiter
<1>2. MutexInv /\ ThreadInv /\ LookInv
  BY MainAssumption DEF Init, MutexInv, ThreadInv, LookInv, Waiter
<1>3. StepInv
  BY BodyFacts, MainAssumption DEF Init, StepInv, EndedOk, Ended, Waiter
<1>4. WantsAreMet
  <2> SUFFICES ASSUME NEW w \in Waiter, NEW i \in DOMAIN Body[w], i < step[w]
               PROVE  FALSE
    BY DEF WantsAreMet
  <2>1. step[w] = 1
    BY DEF Init
  <2>2. i \in 1 .. Len(Body[w]) /\ Len(Body[w]) \in Nat
    BY BodyFacts
  <2> QED
    BY <2>1, <2>2
<1> QED
  BY <1>1, <1>2, <1>3, <1>4 DEF IInv

(***************************************************************************)
(* One lemma per action.                                                   *)
(***************************************************************************)
LEMMA WorkIInv ==
  ASSUME NEW w \in Waiter, IInv, Work(w)
  PROVE  IInv'
<1> USE DEF IInv, Work, At
<1>1. w # Main
  BY MainDoesNoWork
<1>2. CASE Advance(w)
  <2> USE <1>2, BodyFacts DEF Advance
  <2>1. TypeOK'
    BY DEF TypeOK
  <2>2. MutexInv' /\ LookInv' /\ ThreadInv'
    BY DEF TypeOK, MutexInv, LookInv, ThreadInv, Waiter
  <2>3. StepInv'
    BY DEF TypeOK, StepInv, EndedOk, Ended
  <2>4. WantsAreMet'
    BY DEF TypeOK, WantsAreMet, StepInv
  <2> QED
    BY <2>1, <2>2, <2>3, <2>4
<1>3. CASE Raise(w)
  <2> USE <1>1, <1>3 DEF Raise
  <2>1. TypeOK'
    BY DEF TypeOK, Waiter
  <2>2. MutexInv' /\ LookInv' /\ ThreadInv'
    BY DEF TypeOK, MutexInv, LookInv, ThreadInv, Waiter
  <2>3. StepInv'
    BY DEF TypeOK, StepInv, EndedOk, Ended
  <2>4. WantsAreMet'
    BY BodyFacts DEF TypeOK, WantsAreMet, ThreadInv, Waiter
  <2> QED
    BY <2>1, <2>2, <2>3, <2>4
<1> QED
  BY <1>2, <1>3

LEMMA TaskifyEnterIInv ==
  ASSUME NEW w \in Waiter, IInv, TaskifyEnter(w)
  PROVE  IInv'
<1> USE DEF IInv, TaskifyEnter, At
<1>1. TypeOK'
  BY BodyFacts DEF TypeOK
<1>2. MutexInv' /\ ThreadInv'
  BY MainAssumption DEF TypeOK, MutexInv, ThreadInv, Waiter
<1>3. LookInv'
  BY DEF TypeOK, LookInv
<1>4. StepInv'
  BY DEF TypeOK, StepInv, EndedOk, Ended
<1>5. WantsAreMet'
  BY DEF WantsAreMet
<1> QED
  BY <1>1, <1>2, <1>3, <1>4, <1>5

LEMMA TaskifyLookIInv ==
  ASSUME NEW w \in Waiter, NEW t \in Task, IInv, TaskifyLook(w, t)
  PROVE  IInv'
<1> USE DEF IInv
<1>0. t \in Waiter /\ t # None /\ UNCHANGED <<thr, FAILED, pending, task_sync_mutex, pc, step>>
  BY MainAssumption DEF Waiter, TaskifyLook
<1>1. PICK S : S \subseteq todo[w] /\ todo' = [todo EXCEPT ![w] = S]
  BY DEF TaskifyLook
<1>2. CASE thr[t] = "unset"
  <2>1. task' = [task EXCEPT ![w] = t] /\ failed' = [failed EXCEPT ![t] = FALSE]
    BY <1>2 DEF TaskifyLook
  <2>2. pc[w] = "taskify" /\ t \in Body[w][step[w]].tasks
    BY DEF TaskifyLook, LookInv
  <2>3. pc[t] = "idle"
    BY <1>2 DEF ThreadInv
  <2>4. TypeOK'
    BY <1>0, <1>1, <2>1 DEF TypeOK
  <2>5. MutexInv' /\ ThreadInv'
    BY <1>0 DEF MutexInv, ThreadInv
  <2>6. LookInv'
    BY <1>0, <1>1, <1>2, <2>1, <2>2 DEF TypeOK, LookInv
  <2>7. StepInv'
    BY <1>0, <2>1, <2>3 DEF TypeOK, StepInv, EndedOk, Ended
  <2>8. WantsAreMet'
    <3>1. \A v \in Waiter : failed'[v] => failed[v]
      BY <2>1 DEF TypeOK
    <3>2. \A u \in Task : ~failed[u] => ~failed'[u]
      BY <3>1 DEF Waiter
    <3>3. SUFFICES ASSUME NEW v \in Waiter, NEW i \in DOMAIN Body[v],
                          i < step[v], Body[v][i].kind = "want",
                          NEW u \in Body[v][i].tasks
                   PROVE  thr[u] = "dead" /\ ~failed'[u]
      BY <1>0 DEF WantsAreMet
    <3>4. u \in Task /\ thr[u] = "dead" /\ ~failed[u]
      BY <3>3, BodyFacts DEF WantsAreMet
    <3> QED
      BY <3>2, <3>4
  <2> QED
    BY <2>4, <2>5, <2>6, <2>7, <2>8
<1>3. CASE thr[t] # "unset"
  <2>1. UNCHANGED <<task, failed>>
    BY <1>3 DEF TaskifyLook
  <2>2. TypeOK' /\ LookInv'
    BY <1>0, <1>1, <2>1 DEF TypeOK, LookInv
  <2>3. MutexInv' /\ ThreadInv' /\ StepInv' /\ WantsAreMet'
    BY <1>0, <2>1 DEF MutexInv, ThreadInv, StepInv, WantsAreMet, EndedOk, Ended
  <2> QED
    BY <2>2, <2>3
<1> QED
  BY <1>2, <1>3

LEMMA TaskifyStartIInv ==
  ASSUME NEW w \in Waiter, IInv, TaskifyStart(w)
  PROVE  IInv'
<1> USE DEF IInv
<1>1. PICK t \in Task : t = task[w]
  BY DEF TaskifyStart, TypeOK
<1>2. /\ t \in Waiter /\ t # w /\ t # Main
      /\ pc[w] = "taskify" /\ thr[t] = "unset" /\ pc[t] = "idle" /\ step[t] = 1
  BY <1>1, MainAssumption DEF TaskifyStart, LookInv, ThreadInv, StepInv, Waiter
<1>3. /\ thr' = [thr EXCEPT ![t] = "alive"]
      /\ pending' = pending \cup {t}
      /\ pc' = [pc EXCEPT ![t] = "run"]
      /\ step' = step
      /\ task' = [task EXCEPT ![w] = None]
      /\ UNCHANGED <<failed, FAILED, task_sync_mutex, todo>>
  BY <1>1, <1>2 DEF TaskifyStart, TypeOK
<1>4. TypeOK'
  BY <1>2, <1>3 DEF TypeOK
<1>5. MutexInv' /\ ThreadInv'
  BY <1>2, <1>3 DEF TypeOK, MutexInv, ThreadInv, Waiter
<1>6. LookInv'
  <2>1. \A v \in Waiter : v # w => task[v] = None
    BY <1>2 DEF LookInv, MutexInv
  <2> QED
    BY <1>2, <1>3, <2>1 DEF TypeOK, LookInv
<1>7. StepInv'
  BY <1>2, <1>3 DEF TypeOK, StepInv, EndedOk, Ended
<1>8. WantsAreMet'
  BY <1>2, <1>3, BodyFacts DEF TypeOK, WantsAreMet
<1> QED
  BY <1>4, <1>5, <1>6, <1>7, <1>8

LEMMA TaskifyLeaveIInv ==
  ASSUME NEW w \in Waiter, IInv, TaskifyLeave(w)
  PROVE  IInv'
<1> USE DEF IInv
<1>1. /\ pc[w] = "taskify" /\ task[w] = None /\ task_sync_mutex = w
      /\ task_sync_mutex' = None
      /\ step[w] \in DOMAIN Body[w]
      /\ UNCHANGED <<thr, pending, todo, task, failed, FAILED>>
  BY DEF TaskifyLeave, Advance, MutexInv, StepInv
<1>2. PICK q \in {"run", "join"} :
        /\ pc' = [pc EXCEPT ![w] = q]
        /\ \/ q = "run" /\ Body[w][step[w]].kind = "need" /\ step' = [step EXCEPT ![w] = @ + 1]
           \/ q = "join" /\ Body[w][step[w]].kind = "want" /\ step' = step
  BY DEF TaskifyLeave, Advance
<1>3. TypeOK'
  BY <1>1, <1>2 DEF TypeOK
<1>4. MutexInv' /\ ThreadInv'
  BY <1>1, <1>2, MainAssumption DEF TypeOK, MutexInv, ThreadInv, Waiter
<1>5. LookInv'
  BY <1>1, <1>2 DEF TypeOK, LookInv
<1>6. StepInv'
  BY <1>1, <1>2, BodyFacts DEF TypeOK, StepInv, EndedOk, Ended
<1>7. WantsAreMet'
  <2> SUFFICES ASSUME NEW v \in Waiter, NEW i \in DOMAIN Body[v],
                      i < step'[v], Body[v][i].kind = "want",
                      NEW t \in Body[v][i].tasks
               PROVE  thr[t] = "dead" /\ ~failed[t]
    BY <1>1 DEF WantsAreMet
  <2>1. step[v] \in Nat /\ step[w] \in Nat /\ i \in Nat
    BY BodyFacts DEF TypeOK
  <2>2. i < step[v] \/ (v = w /\ i = step[w] /\ Body[w][step[w]].kind = "need")
    BY <1>2, <2>1 DEF TypeOK
  <2> QED
    BY <2>2 DEF WantsAreMet
<1> QED
  BY <1>3, <1>4, <1>5, <1>6, <1>7

LEMMA JoinOkIInv ==
  ASSUME NEW w \in Waiter, IInv, JoinOk(w)
  PROVE  IInv'
<1> USE DEF IInv, JoinOk, Joined, Advance
<1>1. TypeOK'
  BY DEF TypeOK
<1>2. MutexInv' /\ ThreadInv' /\ LookInv'
  BY MainAssumption DEF TypeOK, MutexInv, ThreadInv, LookInv, Waiter
<1>3. StepInv'
  BY BodyFacts DEF TypeOK, StepInv, EndedOk, Ended
<1>4. WantsAreMet'
  <2> SUFFICES ASSUME NEW v \in Waiter, NEW i \in DOMAIN Body[v],
                      i < step'[v], Body[v][i].kind = "want",
                      NEW t \in Body[v][i].tasks
               PROVE  thr[t] = "dead" /\ ~failed[t]
    BY DEF WantsAreMet
  <2>1. step[v] \in Nat /\ i \in Nat
    BY BodyFacts DEF TypeOK
  <2>2. i < step[v] \/ (v = w /\ i = step[w])
    BY <2>1 DEF TypeOK
  <2> QED
    BY <2>2 DEF WantsAreMet, SomeFailed
<1> QED
  BY <1>1, <1>2, <1>3, <1>4

LEMMA LateFailIInv ==
  ASSUME NEW w \in Waiter, IInv, LateFail(w)
  PROVE  IInv'
<1> USE DEF IInv, LateFail, Joined, Raise
<1>1. TypeOK'
  BY DEF TypeOK, Waiter
<1>2. MutexInv' /\ ThreadInv' /\ LookInv'
  BY MainAssumption DEF TypeOK, MutexInv, ThreadInv, LookInv, Waiter
<1>3. StepInv'
  BY DEF TypeOK, StepInv, EndedOk, Ended
<1>4. WantsAreMet'
  BY BodyFacts DEF TypeOK, WantsAreMet, ThreadInv, Waiter
<1> QED
  BY <1>1, <1>2, <1>3, <1>4

LEMMA ReturnIInv ==
  ASSUME NEW w \in Waiter, IInv, Return(w)
  PROVE  IInv'
<1> USE DEF IInv, Return
<1>1. TypeOK'
  BY DEF TypeOK
<1>2. MutexInv' /\ ThreadInv' /\ LookInv'
  BY MainAssumption DEF TypeOK, MutexInv, ThreadInv, LookInv, Waiter
<1>3. StepInv'
  BY BodyFacts DEF TypeOK, StepInv, EndedOk, Ended
<1>4. WantsAreMet'
  BY DEF WantsAreMet
<1> QED
  BY <1>1, <1>2, <1>3, <1>4

LEMMA FinallyIInv ==
  ASSUME NEW t \in Task, IInv, Finally(t)
  PROVE  IInv'
<1> USE DEF IInv, Finally
<1>1. TypeOK'
  BY DEF TypeOK, Waiter
<1>2. MutexInv' /\ ThreadInv' /\ LookInv'
  BY MainAssumption DEF TypeOK, MutexInv, ThreadInv, LookInv, Waiter
<1>3. StepInv'
  BY DEF TypeOK, StepInv, EndedOk, Ended, Waiter
<1>4. WantsAreMet'
  BY DEF WantsAreMet
<1> QED
  BY <1>1, <1>2, <1>3, <1>4

LEMMA ExitIInv ==
  ASSUME NEW t \in Task, IInv, Exit(t)
  PROVE  IInv'
<1> USE DEF IInv, Exit
<1>1. TypeOK'
  BY DEF TypeOK, Waiter
<1>2. MutexInv' /\ ThreadInv' /\ LookInv'
  BY MainAssumption DEF TypeOK, MutexInv, ThreadInv, LookInv, Waiter
<1>3. StepInv'
  BY DEF TypeOK, StepInv, EndedOk, Ended, Waiter
<1>4. WantsAreMet'
  BY BodyFacts DEF TypeOK, WantsAreMet
<1> QED
  BY <1>1, <1>2, <1>3, <1>4

LEMMA NextIInv == IInv /\ [Next]_vars => IInv'
<1> SUFFICES ASSUME IInv, [Next]_vars PROVE IInv'
  OBVIOUS
<1>1. ASSUME NEW w \in Waiter, Thread(w) PROVE IInv'
  BY <1>1, WorkIInv, TaskifyEnterIInv, TaskifyLookIInv, TaskifyStartIInv,
     TaskifyLeaveIInv, JoinOkIInv, LateFailIInv, ReturnIInv
  DEF Thread, Taskify
<1>2. ASSUME NEW t \in Task, Ending(t) PROVE IInv'
  BY <1>2, FinallyIInv, ExitIInv DEF Ending
<1>3. CASE UNCHANGED vars
  BY <1>3 DEF vars, IInv, TypeOK, MutexInv, LookInv, ThreadInv, StepInv,
              WantsAreMet, EndedOk, Ended
<1> QED
  BY <1>1, <1>2, <1>3 DEF Next, Gone

(***************************************************************************)
(* Every variable keeps its type, and nobody is past a task_wants whose    *)
(* tasks have not all ended well.                                          *)
(***************************************************************************)
THEOREM Invariance == SafeSpec => []IInv
BY InitIInv, NextIInv, PTL DEF SafeSpec

(***************************************************************************)
(* Types of the engine's variables.                                        *)
(***************************************************************************)
THEOREM TypeCorrect == SafeSpec => []TypeOK
<1>1. IInv => TypeOK
  BY DEF IInv
<1> QED
  BY <1>1, Invariance, PTL

(***************************************************************************)
(* A task past a task_wants call has all the results it waited for.        *)
(***************************************************************************)
THEOREM WantsMet == SafeSpec => []WantsAreMet
<1>1. IInv => WantsAreMet
  BY DEF IInv
<1> QED
  BY <1>1, Invariance, PTL

LEMMA IInvNoSuccessOverFailure == IInv => NoSuccessOverFailure
<1> SUFFICES ASSUME IInv, NEW w \in Waiter, EndedOk(w), NEW t \in Wants[w]
             PROVE  EndedOk(t)
  BY DEF NoSuccessOverFailure
<1>1. PICK i \in DOMAIN Body[w] : Body[w][i].kind = "want" /\ t \in Body[w][i].tasks
  BY DEF Wants, TasksOf
<1>2. step[w] = Len(Body[w]) + 1
  BY DEF IInv, StepInv
<1>3. i < step[w]
  BY <1>2, BodyFacts
<1>4. thr[t] = "dead" /\ ~failed[t]
  BY <1>1, <1>3 DEF IInv, WantsAreMet
<1>5. t \in Task
  BY <1>1, BodyFacts
<1> QED
  BY <1>4, <1>5 DEF IInv, ThreadInv, EndedOk, Ended

(***************************************************************************)
(* No task, and not the main program, ends well over a failed want.        *)
(***************************************************************************)
THEOREM FailurePropagates == SafeSpec => []NoSuccessOverFailure
BY IInvNoSuccessOverFailure, Invariance, PTL

-----------------------------------------------------------------------------
(* The bookkeeping of pending.                                             *)

LEMMA InitPending == Init => PendingIsExact
BY MainAssumption DEF Init, PendingIsExact, Waiter

LEMMA NextPending ==
  ASSUME IInv, PendingIsExact, [Next]_vars
  PROVE  PendingIsExact'
<1> USE DEF PendingIsExact
<1>0. /\ Main \notin Task /\ Task \subseteq Waiter
      /\ pc \in [Waiter -> {"idle", "run", "taskify", "join", "finally", "exit", "done"}]
  BY MainAssumption DEF Waiter, IInv, TypeOK
<1>1. ASSUME NEW w \in Waiter, Thread(w) PROVE PendingIsExact'
  <2>1. CASE Work(w)
    BY <2>1, <1>0 DEF Work, At, Advance, Raise
  <2>2. CASE TaskifyEnter(w)
    BY <2>2, <1>0 DEF TaskifyEnter, At
  <2>3. CASE \E u \in Task : TaskifyLook(w, u)
    BY <2>3, <1>0 DEF TaskifyLook
  <2>4. CASE TaskifyStart(w)
    BY <2>4, <1>0 DEF TaskifyStart, IInv, TypeOK
  <2>5. CASE TaskifyLeave(w)
    BY <2>5, <1>0 DEF TaskifyLeave, Advance
  <2>6. CASE JoinOk(w)
    BY <2>6, <1>0 DEF JoinOk, Joined, Advance
  <2>7. CASE LateFail(w)
    BY <2>7, <1>0 DEF LateFail, Joined, Raise
  <2>8. CASE Return(w)
    BY <2>8, <1>0 DEF Return
  <2> QED
    BY <1>1, <2>1, <2>2, <2>3, <2>4, <2>5, <2>6, <2>7, <2>8 DEF Thread, Taskify
<1>2. ASSUME NEW u \in Task, Ending(u) PROVE PendingIsExact'
  BY <1>0, <1>2 DEF Ending, Finally, Exit
<1>3. CASE UNCHANGED vars
  BY <1>3 DEF vars
<1> QED
  BY <1>1, <1>2, <1>3 DEF Next, Gone

(***************************************************************************)
(* pending is exact: the remove in the finally block never fails.          *)
(***************************************************************************)
THEOREM PendingExact == SafeSpec => []PendingIsExact
BY InitPending, NextPending, Invariance, PTL DEF SafeSpec

-----------------------------------------------------------------------------
(* Action property and refinement.                                         *)

LEMMA StepNeverRestarts ==
  ASSUME IInv, [Next]_vars, NEW t \in Task
  PROVE  /\ thr[t] # "unset" => step'[t] >= step[t]
         /\ Ended(t) => Ended(t)'
<1> USE DEF IInv, Ended
<1>0. t \in Waiter /\ t # Main /\ step[t] \in Nat
  BY MainAssumption DEF Waiter, TypeOK
<1>1. ASSUME NEW w \in Waiter, Thread(w)
      PROVE  /\ thr[t] # "unset" => step'[t] >= step[t]
             /\ Ended(t) => Ended(t)'
  <2>1. CASE Work(w)
    BY <2>1, <1>0 DEF Work, At, Advance, Raise, TypeOK
  <2>2. CASE TaskifyEnter(w)
    BY <2>2, <1>0 DEF TaskifyEnter, At, TypeOK
  <2>3. CASE \E u \in Task : TaskifyLook(w, u)
    BY <2>3, <1>0 DEF TaskifyLook
  <2>4. CASE TaskifyStart(w)
    <3>1. task[w] \in Task /\ thr[task[w]] = "unset" /\ pc[task[w]] = "idle"
      BY <2>4 DEF TaskifyStart, TypeOK, LookInv, ThreadInv
    <3> QED
      BY <2>4, <3>1, <1>0 DEF TaskifyStart, TypeOK
  <2>5. CASE TaskifyLeave(w)
    BY <2>5, <1>0 DEF TaskifyLeave, Advance, TypeOK
  <2>6. CASE JoinOk(w)
    BY <2>6, <1>0 DEF JoinOk, SomeFailed, Joined, Advance, TypeOK
  <2>7. CASE LateFail(w)
    BY <2>7, <1>0 DEF LateFail, Joined, Raise, TypeOK
  <2>8. CASE Return(w)
    BY <2>8, <1>0 DEF Return, TypeOK
  <2> QED
    BY <1>1, <2>1, <2>2, <2>3, <2>4, <2>5, <2>6, <2>7, <2>8 DEF Thread, Taskify
<1>2. ASSUME NEW u \in Task, Ending(u)
      PROVE  /\ thr[t] # "unset" => step'[t] >= step[t]
             /\ Ended(t) => Ended(t)'
  BY <1>0, <1>2 DEF Ending, Finally, Exit, TypeOK
<1>3. CASE UNCHANGED vars
  BY <1>0, <1>3 DEF vars
<1> QED
  BY <1>1, <1>2, <1>3 DEF Next, Gone

(***************************************************************************)
(* Every task runs at most once.                                           *)
(***************************************************************************)
THEOREM RunsOnce == SafeSpec => NeverRestarted
<1>1. IInv /\ [Next]_vars => [RunsForward]_vars
  BY StepNeverRestarts DEF RunsForward
<1> QED
  BY <1>1, Invariance, PTL DEF SafeSpec, NeverRestarted

LEMMA StatusOfWanted ==
  ASSUME IInv, NEW w \in Waiter, NEW i \in DOMAIN Body[w], NEW t \in Body[w][i].tasks
  PROVE  /\ t \in Waiter /\ t # Main
         /\ Body[w][i].kind = "want" => t \in Wants[w]
         /\ Body[w][i].kind = "need" => t \in Needs[w]
BY BodyFacts, MainAssumption DEF Wants, Needs, TasksOf, Waiter

LEMMA RaiseFails ==
  ASSUME IInv, NEW w \in Waiter, pc[w] \in {"run", "join"}, Raise(w),
         w = Main => \E t \in Wants[w] : Status[t] = "failed"
  PROVE  Graph!Fail(w)
<1>1. \A v \in Waiter : Status'[v] = IF v = w THEN "failed" ELSE Status[v]
  BY DEF IInv, TypeOK, Raise, Status, Ended
<1>2. Status' = [Status EXCEPT ![w] = "failed"] /\ Status[w] = "running"
  BY <1>1 DEF Status, Ended
<1> QED
  BY <1>2 DEF Graph!Fail

LEMMA StepRefines == IInv /\ [Next]_vars => [Graph!Next]_Status
<1> SUFFICES ASSUME IInv, [Next]_vars PROVE Graph!Next \/ UNCHANGED Status
  OBVIOUS
<1> USE DEF IInv
<1> DEFINE Same == \A v \in Waiter : Status'[v] = Status[v]
<1>0. Same => UNCHANGED Status
  BY DEF Status
<1>1. ASSUME NEW w \in Waiter, Thread(w) PROVE Graph!Next \/ Same
  <2>1. CASE Work(w)
    <3>1. CASE Advance(w)
      BY <2>1, <3>1 DEF Work, At, Advance, Status, Ended, TypeOK
    <3>2. CASE Raise(w)
      <4>1. w # Main /\ pc[w] = "run"
        BY <2>1, MainDoesNoWork DEF Work, At
      <4> QED
        BY <3>2, <4>1, RaiseFails DEF Graph!Next, Graph!Waiter, Waiter
    <3> QED
      BY <2>1, <3>1, <3>2 DEF Work
  <2>2. CASE TaskifyEnter(w)
    BY <2>2 DEF TaskifyEnter, At, Status, Ended, TypeOK
  <2>3. CASE \E t \in Task : TaskifyLook(w, t)
    <3>1. PICK t \in Task : TaskifyLook(w, t)
      BY <2>3
    <3>2. pc' = pc
      BY <3>1 DEF TaskifyLook
    <3>3. \A v \in Waiter : Ended(v) => failed'[v] = failed[v]
      BY <3>1 DEF TaskifyLook, TypeOK, ThreadInv, Ended
    <3> QED
      BY <3>2, <3>3 DEF Status, Ended
  <2>4. CASE TaskifyStart(w)
    <3>1. PICK t \in Task : t = task[w]
      BY <2>4 DEF TaskifyStart, TypeOK
    <3>2. /\ t \in Waiter /\ t # w
          /\ pc[w] = "taskify" /\ pc[t] = "idle" /\ step[w] \in DOMAIN Body[w]
          /\ Body[w][step[w]].kind \in {"want", "need"}
          /\ t \in Body[w][step[w]].tasks
      BY <2>4, <3>1, MainAssumption
      DEF TaskifyStart, LookInv, ThreadInv, StepInv, Waiter
    <3>3. \A v \in Waiter : Status'[v] = IF v = t THEN "running" ELSE Status[v]
      BY <2>4, <3>1, <3>2 DEF TaskifyStart, Status, Ended, TypeOK
    <3>4. Status' = [Status EXCEPT ![t] = "running"]
      BY <3>3 DEF Status
    <3>5. Status[t] = "idle" /\ Status[w] = "running" /\ t \in Wants[w] \cup Needs[w]
      BY <3>2, StatusOfWanted DEF Status, Ended
    <3>6. Graph!Start(t)
      BY <3>4, <3>5 DEF Graph!Start, Graph!Waiter, Waiter
    <3> QED
      BY <3>6 DEF Graph!Next
  <2>5. CASE TaskifyLeave(w)
    BY <2>5 DEF TaskifyLeave, Advance, Status, Ended, TypeOK
  <2>6. CASE JoinOk(w)
    BY <2>6 DEF JoinOk, SomeFailed, Joined, Advance, Status, Ended, TypeOK
  <2>7. CASE LateFail(w)
    <3>1. PICK t \in Body[w][step[w]].tasks : failed[t]
      BY <2>7 DEF LateFail, SomeFailed
    <3>2. step[w] \in DOMAIN Body[w] /\ Body[w][step[w]].kind = "want" /\ pc[w] = "join"
      BY <2>7 DEF LateFail, SomeFailed, Joined, StepInv
    <3>3. t \in Wants[w] /\ t \in Waiter
      BY <3>2, StatusOfWanted
    <3>4. Status[t] = "failed"
      BY <3>1, <3>3 DEF Status, StepInv, Ended
    <3>5. Graph!Fail(w)
      BY <2>7, <3>2, <3>3, <3>4, RaiseFails DEF LateFail, SomeFailed
    <3> QED
      BY <3>5 DEF Graph!Next, Graph!Waiter, Waiter
  <2>8. CASE Return(w)
    <3>1. pc[w] = "run" /\ ~failed[w] /\ step[w] = Len(Body[w]) + 1
      BY <2>8 DEF Return, StepInv, Ended
    <3>2. ASSUME NEW t \in Wants[w] PROVE Status[t] = "ok"
      <4>1. PICK i \in DOMAIN Body[w] : Body[w][i].kind = "want" /\ t \in Body[w][i].tasks
        BY DEF Wants, TasksOf
      <4>2. i < step[w]
        BY <3>1, BodyFacts
      <4>3. thr[t] = "dead" /\ ~failed[t] /\ t \in Task
        BY <4>1, <4>2, BodyFacts DEF WantsAreMet
      <4> QED
        BY <4>3 DEF Status, ThreadInv, Ended, Waiter
    <3>3. \A v \in Waiter : Status'[v] = IF v = w THEN "ok" ELSE Status[v]
      BY <2>8, <3>1 DEF Return, Status, Ended, TypeOK
    <3>4. Status' = [Status EXCEPT ![w] = "ok"] /\ Status[w] = "running"
      BY <3>1, <3>3 DEF Status, Ended
    <3>5. Graph!Succeed(w)
      BY <3>2, <3>4 DEF Graph!Succeed
    <3> QED
      BY <3>5 DEF Graph!Next, Graph!Waiter, Waiter
  <2> QED
    BY <1>1, <2>1, <2>2, <2>3, <2>4, <2>5, <2>6, <2>7, <2>8 DEF Thread, Taskify
<1>2. ASSUME NEW t \in Task, Ending(t) PROVE Same
  BY <1>2 DEF Ending, Finally, Exit, Status, Ended, TypeOK, Waiter
<1>3. CASE UNCHANGED vars
  BY <1>3 DEF vars, Status, Ended
<1> QED
  BY <1>0, <1>1, <1>2, <1>3 DEF Next, Gone

LEMMA InitRefines == Init => Graph!Init
BY MainAssumption DEF Init, Graph!Init, Graph!Waiter, Status, Waiter, Ended

(***************************************************************************)
(* The engine's safety part implements TaskGraph's.                        *)
(***************************************************************************)
THEOREM Implements == SafeSpec => Graph!SafeSpec
BY InitRefines, StepRefines, Invariance, PTL DEF SafeSpec, Graph!SafeSpec

=============================================================================
