--------------------------- MODULE ScatterGather ---------------------------
(***************************************************************************)
(* What a remote call of the controller promises to the task that makes    *)
(* it (do_do, do_diff and the rest of speedling/inv.py): the function runs *)
(* at most once on every target, and the call ends well only after it ran  *)
(* on all of them and ended well everywhere.                               *)
(***************************************************************************)
CONSTANTS Host, Call, None

VARIABLES
  issued,   \* the calls that were made
  targets,  \* targets[c]: the remote nodes of a call
  result,   \* result[c][h]: how the function ended on node h, None before
  verdict   \* verdict[c]: how the call ended for the caller, None before

vars == <<issued, targets, result, verdict>>

Init ==
  /\ issued = {}
  /\ targets = [c \in Call |-> {}]
  /\ result = [c \in Call |-> [h \in Host |-> None]]
  /\ verdict = [c \in Call |-> None]

Issue(c) ==
  /\ c \notin issued
  /\ issued' = issued \cup {c}
  /\ \E T \in SUBSET Host : targets' = [targets EXCEPT ![c] = T]
  /\ UNCHANGED <<result, verdict>>

Run(c, h) ==  \* possibly after the caller gave up
  /\ h \in targets[c]
  /\ result[c][h] = None
  /\ \E s \in {"ok", "error"} : result' = [result EXCEPT ![c][h] = s]
  /\ UNCHANGED <<issued, targets, verdict>>

EndWell(c) ==
  /\ c \in issued
  /\ verdict[c] = None
  /\ \A h \in targets[c] : result[c][h] = "ok"
  /\ verdict' = [verdict EXCEPT ![c] = "ok"]
  /\ UNCHANGED <<issued, targets, result>>

EndBadly(c) ==  \* a failure on some node, the caller's own included
  /\ c \in issued
  /\ verdict[c] = None
  /\ verdict' = [verdict EXCEPT ![c] = "error"]
  /\ UNCHANGED <<issued, targets, result>>

Next ==
  \E c \in Call :
    \/ Issue(c)
    \/ \E h \in Host : Run(c, h)
    \/ EndWell(c)
    \/ EndBadly(c)

Spec == Init /\ [][Next]_vars

=============================================================================
