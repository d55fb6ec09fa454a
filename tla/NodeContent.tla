---------------------------- MODULE NodeContent ----------------------------
(***************************************************************************)
(* The content of a node: packages, git repositories, python projects and  *)
(* configuration files, put there by have_content of each component.       *)
(*                                                                         *)
(* The calls that come in from the controller run in threads of their own  *)
(* and ask for overlapping content.  Each part of it stands behind a       *)
(* guard, a lock and a flag: lock_sigleton_call around the have_content of *)
(* a component, and the same written out in ensure_compose, ensure_git and *)
(* ensure_requirements.  The body of a guard enters further guards with    *)
(* its own lock held; pip runs under a plain lock.  An exception gives the *)
(* locks back on its way out and leaves the flags down, so that the next   *)
(* caller tries again.                                                     *)
(***************************************************************************)
EXTENDS Naturals, Sequences, SequencesExt

CONSTANTS
  Component,  \* the components of this node
  Source,     \* those deployed from their sources
  Client,     \* python-openstackclient, which is installed without a guard
  Thread,     \* the calls
  Asked,      \* Asked[t]: whose content the call asks for
  None

ASSUME ComponentAssumption ==
  /\ Source \subseteq Component
  /\ Client \notin Component
  /\ Component \cap {"compose", "git", "requirements", "pip"} = {}
ASSUME ThreadAssumption ==
  /\ Asked \in [Thread -> Component \cup {Client}]
  /\ None \notin Thread \cup Component \cup {"compose", "git", "requirements"}

Guard == Component \cup {"compose", "git", "requirements"}
Lock == Guard \cup {"pip"}

\* What a step of a body does: enter a guard, or make an item of content.
Enter(g) == [op |-> "enter", on |-> g, what |-> "done"]
Make(op, on, what) == [op |-> op, on |-> on, what |-> what]
Item(step) == <<step.what, step.on>>

VARIABLES
  done,     \* done[g]: the flag of the guard
  lock,     \* lock[l]: the thread that has the lock, or None
  stack,    \* stack[t]: the bodies t is in, each with its next step
  mode,     \* mode[t]: what t is doing
  content   \* the items that are there

vars == <<done, lock, stack, mode, content>>

Mode == {"idle", "run", "lock", "pip", "raise", "returned", "raised"}

-----------------------------------------------------------------------------
(* The bodies.                                                             *)

process_git_repo(on) == <<Enter("git"), Make("clone", on, "repo")>>

\* pip_install_req, pip_install
Pip(on, what) ==
  <<Enter("requirements"), Enter("compose"), Make("pip", on, what)>>

have_content(c) ==
  <<Enter("compose")>>
  \o (IF c \in Source
      THEN process_git_repo(c) \o Pip(c, "reqs") \o Pip(c, "develop")
      ELSE << >>)
  \o <<Make("work", c, "etc")>>

Body(g) ==
  CASE g = "compose"      -> <<Make("work", "node", "packages")>>
    [] g = "git"          -> <<Make("work", "node", "git")>>
    [] g = "requirements" -> process_git_repo("requirements")
    [] g \in Component    -> have_content(g)

Call(t) == IF Asked[t] = Client THEN Pip(Client, "client")
                                ELSE <<Enter(Asked[t])>>

\* What pip reads: the projects it is pointed at and the constraints.
Reads(step) ==
  (IF step.on \in Component THEN {<<"repo", step.on>>} ELSE {})
  \cup (IF step.what = "develop" THEN {} ELSE {<<"repo", "requirements">>})

ContentOf(c) ==
  {<<"packages", "node">>}
  \cup (IF c = Client THEN {<<"client", c>>} ELSE {<<"etc", c>>})
  \cup (IF c \in Source THEN {<<x, c>> : x \in {"repo", "reqs", "develop"}}
                        ELSE {})

-----------------------------------------------------------------------------

Init ==
  /\ done = [g \in Guard |-> FALSE]
  /\ lock = [l \in Lock |-> None]
  /\ stack = [t \in Thread |-> << >>]
  /\ mode = [t \in Thread |-> "idle"]
  /\ content = {}

\* A frame: the guard, None for the call itself, and the steps left.
Frame(g, steps) == [guard |-> g, steps |-> steps]
Top(t) == Last(stack[t])
Step(t) == Head(Top(t).steps)
AtStep(t) == stack[t] # << >> /\ Top(t).steps # << >>

\* The stack with its top frame one step further.
Advanced(frames) ==
  Append(Front(frames), [Last(frames) EXCEPT !.steps = Tail(@)])

Goto(t, m) == mode' = [mode EXCEPT ![t] = m]
Proceed(t) == stack' = [stack EXCEPT ![t] = Advanced(@)]

Start(t) ==
  /\ mode[t] = "idle"
  /\ stack' = [stack EXCEPT ![t] = <<Frame(None, Call(t))>>]
  /\ Goto(t, "run")
  /\ UNCHANGED <<done, lock, content>>

\* Faulty variant: who finds the lock taken does not wait for it.
TestDoneOrBusy(t) ==
  /\ mode[t] = "run" /\ AtStep(t) /\ Step(t).op = "enter"
  /\ IF done[Step(t).on] \/ lock[Step(t).on] # None
     THEN Proceed(t) /\ UNCHANGED mode
     ELSE Goto(t, "lock") /\ UNCHANGED stack
  /\ UNCHANGED <<done, lock, content>>

\* if done: return, without the lock
TestDone(t) ==
  /\ mode[t] = "run" /\ AtStep(t) /\ Step(t).op = "enter"
  /\ IF done[Step(t).on]
     THEN Proceed(t) /\ UNCHANGED mode
     ELSE Goto(t, "lock") /\ UNCHANGED stack
  /\ UNCHANGED <<done, lock, content>>

\* lock.acquire(), and done again: who waited for the thread that did it
\* gives the lock back.
Acquire(t) ==
  /\ mode[t] = "lock" /\ lock[Step(t).on] = None
  /\ Goto(t, "run")
  /\ IF done[Step(t).on]
     THEN Proceed(t) /\ UNCHANGED lock
     ELSE /\ lock' = [lock EXCEPT ![Step(t).on] = t]
          /\ stack' = [stack EXCEPT ![t] = Append(@, Frame(Step(t).on,
                                                           Body(Step(t).on)))]
  /\ UNCHANGED <<done, content>>

\* the_do_do returned
Finish(t) ==
  /\ mode[t] = "run" /\ Top(t).steps = << >>
  /\ IF Top(t).guard = None
     THEN /\ stack' = [stack EXCEPT ![t] = << >>]
          /\ Goto(t, "returned")
          /\ UNCHANGED <<done, lock>>
     ELSE /\ done' = [done EXCEPT ![Top(t).guard] = TRUE]
          /\ lock' = [lock EXCEPT ![Top(t).guard] = None]
          /\ stack' = [stack EXCEPT ![t] = Advanced(Front(@))]
          /\ UNCHANGED mode
  /\ UNCHANGED content

\* Faulty variant: the flag is set on the way out of an exception, too.
UnwindDone(t) ==
  /\ mode[t] = "raise" /\ stack[t] # << >>
  /\ IF Top(t).guard = None
     THEN Goto(t, "raised") /\ UNCHANGED <<done, lock>>
     ELSE /\ lock' = [lock EXCEPT ![Top(t).guard] = None]
          /\ done' = [done EXCEPT ![Top(t).guard] = TRUE]
          /\ UNCHANGED mode
  /\ stack' = [stack EXCEPT ![t] = Front(@)]
  /\ UNCHANGED content

\* Faulty variant: the lock is kept.
UnwindKeeping(t) ==
  /\ mode[t] = "raise" /\ stack[t] # << >>
  /\ IF Top(t).guard = None THEN Goto(t, "raised") ELSE UNCHANGED mode
  /\ stack' = [stack EXCEPT ![t] = Front(@)]
  /\ UNCHANGED <<done, lock, content>>

\* finally: lock.release(), one guard after the other
Unwind(t) ==
  /\ mode[t] = "raise" /\ stack[t] # << >>
  /\ IF Top(t).guard = None
     THEN Goto(t, "raised") /\ UNCHANGED lock
     ELSE lock' = [lock EXCEPT ![Top(t).guard] = None] /\ UNCHANGED mode
  /\ stack' = [stack EXCEPT ![t] = Front(@)]
  /\ UNCHANGED <<done, content>>

\* The package manager, which is tried five times, or a file written.
Work(t) ==
  /\ mode[t] = "run" /\ AtStep(t) /\ Step(t).op = "work"
  /\ \/ /\ content' = content \cup {Item(Step(t))}
        /\ Proceed(t)
        /\ UNCHANGED mode
     \/ /\ Goto(t, "raise")
        /\ UNCHANGED <<stack, content>>
  /\ UNCHANGED <<done, lock>>

\* git clone or git pull; nobody looks at how it ended.
Clone(t) ==
  /\ mode[t] = "run" /\ AtStep(t) /\ Step(t).op = "clone"
  /\ content' \in {content, content \cup {Item(Step(t))}}
  /\ Proceed(t)
  /\ UNCHANGED <<done, lock, mode>>

\* Faulty variant: without PIP_LOCK.
PipUnlocked(t) ==
  /\ mode[t] = "run" /\ AtStep(t) /\ Step(t).op = "pip"
  /\ Goto(t, "pip")
  /\ UNCHANGED <<done, lock, stack, content>>

PipStarts(t) ==  \* PIP_LOCK.acquire()
  /\ mode[t] = "run" /\ AtStep(t) /\ Step(t).op = "pip"
  /\ lock["pip"] = None
  /\ lock' = [lock EXCEPT !["pip"] = t]
  /\ Goto(t, "pip")
  /\ UNCHANGED <<done, stack, content>>

PipEnds(t) ==
  /\ mode[t] = "pip"
  /\ lock' = [lock EXCEPT !["pip"] = None]
  /\ \/ /\ Reads(Step(t)) \subseteq content
        /\ content' = content \cup {Item(Step(t))}
        /\ Proceed(t)
        /\ Goto(t, "run")
     \/ /\ Goto(t, "raise")
        /\ UNCHANGED <<stack, content>>
  /\ UNCHANGED done

Run(t) ==
  \/ TestDone(t) \/ Acquire(t) \/ Finish(t) \/ Unwind(t)
  \/ Work(t) \/ Clone(t) \/ PipStarts(t) \/ PipEnds(t)

Next == \E t \in Thread : Start(t) \/ Run(t)

\* A thread that can go on does so; which calls there are is open.
Spec == Init /\ [][Next]_vars /\ \A t \in Thread : WF_vars(Run(t))

-----------------------------------------------------------------------------
(* Properties.                                                             *)

Frames(t) == {stack[t][i] : i \in 1 .. Len(stack[t])}
Inside(t, g) == \E f \in Frames(t) : f.guard = g

(***************************************************************************)
(* A call that returns leaves nothing to be done: all the content it asked *)
(* for is there, whoever put it there, and however many attempts failed.   *)
(* The next step of the deployment runs the programs at once.              *)
(***************************************************************************)
ReturnsComplete ==
  \A t \in Thread : mode[t] = "returned" => ContentOf(Asked[t]) \subseteq content

(***************************************************************************)
(* A flag is up only when the content is there: a failed attempt is never  *)
(* taken for a successful one, although the clones inside may fail unseen. *)
(***************************************************************************)
DoneIsComplete ==
  /\ done["compose"] => <<"packages", "node">> \in content
  /\ done["git"] => <<"git", "node">> \in content
  /\ \A c \in Component : done[c] => ContentOf(c) \subseteq content

\* What the next step of t works on, outside the process.
Using(t) ==
  CASE mode[t] = "pip"                            -> {<<"site", "node">>}
    [] mode[t] = "run" /\ AtStep(t) /\ Step(t).op # "enter"
                       /\ Step(t).op # "pip"      -> {Item(Step(t))}
    [] OTHER                                      -> {}

(***************************************************************************)
(* Two threads never work in the same repository, on the same files or in  *)
(* the python packages at the same time.                                   *)
(***************************************************************************)
OneAtATime ==
  \A t, u \in Thread : t # u => Using(t) \cap Using(u) = {}

(***************************************************************************)
(* Every call ends, although the guards nest and any step may fail.        *)
(***************************************************************************)
ContentCallsEnd ==
  \A t \in Thread : mode[t] = "run" ~> mode[t] \in {"returned", "raised"}

=============================================================================
