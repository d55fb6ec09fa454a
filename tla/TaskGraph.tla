----------------------------- MODULE TaskGraph -----------------------------
(***************************************************************************)
(* What the task engine of speedling/facility.py promises to the component *)
(* writers, without threads, mutexes and joins.                            *)
(*                                                                         *)
(* A controller run is a set of tasks and the main program.  A task that   *)
(* some running task asks for is started once; a task may end well only    *)
(* when everything it waited for ended well; the main program ends badly   *)
(* only when something it waited for did.                                  *)
(***************************************************************************)
CONSTANTS
  Task,     \* the task callables handed to task_wants / task_will_need
  Main,     \* the main program, speedling/sl.py:main
  Wants,    \* Wants[w]: the tasks w waits for during its run
  Needs     \* Needs[w]: the tasks w asks for without waiting

Waiter == Task \cup {Main}

VARIABLE status

Init == status = [w \in Waiter |-> IF w = Main THEN "running" ELSE "idle"]

Start(t) ==  \* a running waiter asks for a task nobody asked for before
  /\ status[t] = "idle"
  /\ \E w \in Waiter : status[w] = "running" /\ t \in Wants[w] \cup Needs[w]
  /\ status' = [status EXCEPT ![t] = "running"]

Succeed(w) ==
  /\ status[w] = "running"
  /\ \A t \in Wants[w] : status[t] = "ok"
  /\ status' = [status EXCEPT ![w] = "ok"]

Fail(w) ==
  /\ status[w] = "running"
  /\ w = Main => \E t \in Wants[w] : status[t] = "failed"
  /\ status' = [status EXCEPT ![w] = "failed"]

Next ==
  \/ \E t \in Task : Start(t)
  \/ \E w \in Waiter : Succeed(w) \/ Fail(w)

SafeSpec == Init /\ [][Next]_status

\* Everything that was started ends.
Spec == SafeSpec /\ \A w \in Waiter : WF_status(Succeed(w) \/ Fail(w))

=============================================================================
