------------------------- MODULE NodeContentProofs -------------------------
(***************************************************************************)
(* Proofs about NodeContent, for any components, calls and threads.        *)
(*                                                                         *)
(* A thread's stack mirrors the locks: it is inside a guard exactly when   *)
(* it has the guard's lock.  Along a stack the guards go down in rank, so  *)
(* none is entered twice, and every frame stands at a step of its body     *)
(* whose earlier steps have left what they are certain to leave.  That the *)
(* threads exclude each other follows from the first, that a flag means    *)
(* complete content from the second.                                       *)
(***************************************************************************)
EXTENDS NodeContent, SequenceTheorems, TLAPS

Program(t, g) == IF g = None THEN Call(t) ELSE Body(g)

Rank(g) ==
  CASE g = None               -> 4
    [] g \in Component        -> 3
    [] g = "requirements"     -> 2
    [] g \in {"compose", "git"} -> 1

\* What is there when the body of a guard ended well, and when a step did.
GuardContent(g) ==
  CASE g = "compose"      -> {<<"packages", "node">>}
    [] g = "git"          -> {<<"git", "node">>}
    [] g = "requirements" -> {}
    [] g \in Component    -> ContentOf(g)
Certain(step) ==
  CASE step.op = "enter" -> GuardContent(step.on)
    [] step.op = "work"  -> {Item(step)}
    [] step.op = "pip"   -> {Item(step)} \cup Reads(step)
    [] step.op = "clone" -> {}

\* The items whose making stands behind the lock of g.
Makes(g) ==
  CASE g = "compose"      -> {<<"packages", "node">>}
    [] g = "git"          -> {<<"git", "node">>}
    [] g = "requirements" -> {<<"repo", "requirements">>}
    [] g \in Component    -> {<<"repo", g>>, <<"etc", g>>}

StepSet ==
  [op : {"enter", "work", "clone", "pip"}, on : Guard \cup {Client, "node"},
   what : {"done", "packages", "git", "repo", "reqs", "develop", "client", "etc"}]
FrameSet == [guard : Guard \cup {None}, steps : Seq(StepSet)]

\* f stands in the program: what is left of it is its end, and the steps
\* before that have left what they are certain to leave.
Stands(f, program, c) ==
  /\ Len(f.steps) <= Len(program)
  /\ \A j \in 1 .. Len(f.steps) : f.steps[j] = program[Len(program) - Len(f.steps) + j]
  /\ \A j \in 1 .. Len(program) - Len(f.steps) : Certain(program[j]) \subseteq c

\* The call comes first, every frame waits at the step that entered the
\* next, and the guards go down in rank.
StackOK(t, frames, c) ==
  /\ \A i \in 1 .. Len(frames) :
       /\ frames[i].guard = None <=> i = 1
       /\ Stands(frames[i], Program(t, frames[i].guard), c)
  /\ \A i \in 1 .. Len(frames) - 1 :
       /\ frames[i].steps # << >>
       /\ Head(frames[i].steps) = Enter(frames[i + 1].guard)
  /\ \A i, j \in 1 .. Len(frames) : i < j => Rank(frames[j].guard) < Rank(frames[i].guard)

Guards(frames) == {frames[i].guard : i \in 1 .. Len(frames)}

TypeInv ==
  /\ done \in [Guard -> BOOLEAN]
  /\ lock \in [Lock -> Thread \cup {None}]
  /\ stack \in [Thread -> Seq(FrameSet)]
  /\ mode \in [Thread -> Mode]

ModeInv(t) ==
  /\ stack[t] = << >> <=> mode[t] \in {"idle", "returned", "raised"}
  /\ mode[t] = "lock" => AtStep(t) /\ Step(t).op = "enter"
  /\ mode[t] = "pip" => AtStep(t) /\ Step(t).op = "pip"
  /\ mode[t] = "returned" => ContentOf(Asked[t]) \subseteq content

LockInv(t) ==
  /\ \A g \in Guard : lock[g] = t <=> g \in Guards(stack[t])
  /\ lock["pip"] = t <=> mode[t] = "pip"

DoneInv == \A g \in Guard : done[g] => GuardContent(g) \subseteq content

IInv ==
  /\ TypeInv
  /\ \A t \in Thread : StackOK(t, stack[t], content) /\ ModeInv(t) /\ LockInv(t)
  /\ DoneInv

-----------------------------------------------------------------------------
(* The programs, written out.                                              *)

LEMMA GuardTypes ==
  /\ None \notin Guard /\ None \notin Thread
  /\ "pip" \notin Guard
  /\ Component \subseteq Guard /\ Source \subseteq Component
  /\ {"compose", "git", "requirements"} \subseteq Guard
  /\ Component \cap {"compose", "git", "requirements", "pip"} = {}
BY ComponentAssumption, ThreadAssumption DEF Guard

LEMMA Steps ==
  /\ \A g \in Guard : Enter(g) \in StepSet
  /\ \A op \in {"work", "clone", "pip"}, on \in Guard \cup {Client, "node"},
        what \in {"packages", "git", "repo", "reqs", "develop", "client", "etc"} :
       Make(op, on, what) \in StepSet
BY DEF Enter, Make, StepSet

LEMMA Concatenation ==
  \A S : \A x, y \in Seq(S) :
    /\ x \o y \in Seq(S) /\ Len(x \o y) = Len(x) + Len(y)
    /\ \A i \in 1 .. Len(x) : (x \o y)[i] = x[i]
    /\ \A i \in 1 .. Len(y) : (x \o y)[Len(x) + i] = y[i]
BY ConcatProperties

LEMMA SourceProgram ==
  ASSUME NEW c \in Source
  PROVE  LET p == have_content(c) IN
         /\ p \in Seq(StepSet) /\ Len(p) = 10
         /\ p[1] = Enter("compose") /\ p[2] = Enter("git") /\ p[3] = Make("clone", c, "repo")
         /\ p[4] = Enter("requirements") /\ p[5] = Enter("compose") /\ p[6] = Make("pip", c, "reqs")
         /\ p[7] = Enter("requirements") /\ p[8] = Enter("compose") /\ p[9] = Make("pip", c, "develop")
         /\ p[10] = Make("work", c, "etc")
<1> DEFINE a == <<Enter("compose")>>
           b == process_git_repo(c)
           d == Pip(c, "reqs")
           e == Pip(c, "develop")
           f == <<Make("work", c, "etc")>>
           r == b \o d
           s == r \o e
           h == a \o s
           p == h \o f
<1>1. a \in Seq(StepSet) /\ Len(a) = 1 /\ a[1] = Enter("compose")
  BY Steps, GuardTypes
<1>2. b \in Seq(StepSet) /\ Len(b) = 2 /\ b[1] = Enter("git") /\ b[2] = Make("clone", c, "repo")
  BY Steps, GuardTypes DEF process_git_repo
<1>3. \A what \in {"reqs", "develop"} :
        /\ Pip(c, what) \in Seq(StepSet) /\ Len(Pip(c, what)) = 3
        /\ Pip(c, what)[1] = Enter("requirements") /\ Pip(c, what)[2] = Enter("compose")
        /\ Pip(c, what)[3] = Make("pip", c, what)
  BY Steps, GuardTypes DEF Pip
<1>4. f \in Seq(StepSet) /\ Len(f) = 1 /\ f[1] = Make("work", c, "etc")
  BY Steps, GuardTypes
<1>5. have_content(c) = p
  BY DEF have_content
<1>6. a \in Seq(StepSet) /\ b \in Seq(StepSet) /\ d \in Seq(StepSet) /\ e \in Seq(StepSet) /\ f \in Seq(StepSet)
  BY <1>1, <1>2, <1>3, <1>4
<1>7. /\ Len(d) = 3 /\ d[1] = Enter("requirements") /\ d[2] = Enter("compose") /\ d[3] = Make("pip", c, "reqs")
      /\ Len(e) = 3 /\ e[1] = Enter("requirements") /\ e[2] = Enter("compose") /\ e[3] = Make("pip", c, "develop")
  BY <1>3
<1> HIDE DEF a, b, d, e, f
<1>8. r \in Seq(StepSet)
  BY <1>6, Concatenation
<1>9. /\ Len(r) = Len(b) + Len(d)
      /\ \A i \in 1 .. Len(b) : r[i] = b[i]
      /\ \A i \in 1 .. Len(d) : r[Len(b) + i] = d[i]
  BY <1>6, Concatenation
<1> HIDE DEF r
<1>10. s \in Seq(StepSet)
  BY <1>6, <1>8, Concatenation
<1>11. /\ Len(s) = Len(r) + Len(e)
       /\ \A i \in 1 .. Len(r) : s[i] = r[i]
       /\ \A i \in 1 .. Len(e) : s[Len(r) + i] = e[i]
  BY <1>6, <1>8, Concatenation
<1> HIDE DEF s
<1>12. h \in Seq(StepSet)
  BY <1>6, <1>10, Concatenation
<1>13. /\ Len(h) = Len(a) + Len(s)
       /\ \A i \in 1 .. Len(a) : h[i] = a[i]
       /\ \A i \in 1 .. Len(s) : h[Len(a) + i] = s[i]
  BY <1>6, <1>10, Concatenation
<1> HIDE DEF h
<1>14. p \in Seq(StepSet)
  BY <1>6, <1>12, Concatenation
<1>15. /\ Len(p) = Len(h) + Len(f)
       /\ \A i \in 1 .. Len(h) : p[i] = h[i]
       /\ \A i \in 1 .. Len(f) : p[Len(h) + i] = f[i]
  BY <1>6, <1>12, Concatenation
<1> HIDE DEF p
<1>16. /\ Len(r) = 5 /\ \A i \in 1 .. 2 : r[i] = b[i]
       /\ \A i \in 1 .. 3 : r[2 + i] = d[i]
  BY <1>2, <1>7, <1>9
<1>17. /\ Len(s) = 8 /\ \A i \in 1 .. 5 : s[i] = r[i]
       /\ \A i \in 1 .. 3 : s[5 + i] = e[i]
  BY <1>7, <1>11, <1>16
<1>18. /\ Len(h) = 9 /\ h[1] = a[1]
       /\ \A i \in 1 .. 8 : h[1 + i] = s[i]
  BY <1>1, <1>13, <1>17
<1>19. /\ Len(p) = 10 /\ \A i \in 1 .. 9 : p[i] = h[i]
       /\ p[10] = f[1]
  BY <1>4, <1>15, <1>18
<1>20. /\ r[1] = b[1] /\ r[2] = b[2] /\ r[3] = d[1] /\ r[4] = d[2] /\ r[5] = d[3]
  BY <1>16
<1>21. /\ s[1] = r[1] /\ s[2] = r[2] /\ s[3] = r[3] /\ s[4] = r[4] /\ s[5] = r[5]
       /\ s[6] = e[1] /\ s[7] = e[2] /\ s[8] = e[3]
  BY <1>17
<1>22. /\ p[1] = a[1] /\ p[2] = s[1] /\ p[3] = s[2] /\ p[4] = s[3] /\ p[5] = s[4] /\ p[6] = s[5]
       /\ p[7] = s[6] /\ p[8] = s[7] /\ p[9] = s[8]
  BY <1>18, <1>19
<1> QED
  BY <1>1, <1>2, <1>4, <1>5, <1>7, <1>14, <1>19, <1>20, <1>21, <1>22

LEMMA PackagedProgram ==
  ASSUME NEW c \in Component \ Source
  PROVE  LET p == have_content(c) IN
         /\ p \in Seq(StepSet) /\ Len(p) = 2
         /\ p[1] = Enter("compose") /\ p[2] = Make("work", c, "etc")
<1>1. /\ <<Enter("compose")>> \in Seq(StepSet) /\ Len(<<Enter("compose")>>) = 1
      /\ <<Make("work", c, "etc")>> \in Seq(StepSet) /\ Len(<<Make("work", c, "etc")>>) = 1
  BY Steps, GuardTypes
<1>2. <<Enter("compose")>> \o << >> = <<Enter("compose")>>
  BY <1>1, ConcatEmptySeq
<1>3. have_content(c) = <<Enter("compose")>> \o <<Make("work", c, "etc")>>
  BY <1>2 DEF have_content
<1> QED
  BY <1>1, <1>3, ConcatProperties

LEMMA CallProgram ==
  ASSUME NEW t \in Thread
  PROVE  /\ Asked[t] = Client =>
              Program(t, None) = <<Enter("requirements"), Enter("compose"), Make("pip", Client, "client")>>
         /\ Asked[t] # Client => Program(t, None) = <<Enter(Asked[t])>>
BY DEF Program, Call, Pip

LEMMA BodyProgram ==
  ASSUME NEW t \in Thread
  PROVE  /\ Program(t, "compose") = <<Make("work", "node", "packages")>>
         /\ Program(t, "git") = <<Make("work", "node", "git")>>
         /\ Program(t, "requirements") = <<Enter("git"), Make("clone", "requirements", "repo")>>
         /\ \A c \in Component : Program(t, c) = have_content(c)
BY GuardTypes DEF Program, Body, process_git_repo

LEMMA Ranks ==
  /\ Rank(None) = 4 /\ Rank("requirements") = 2 /\ Rank("compose") = 1 /\ Rank("git") = 1
  /\ \A c \in Component : Rank(c) = 3
BY GuardTypes DEF Rank

LEMMA GuardContents ==
  /\ GuardContent("compose") = {<<"packages", "node">>} /\ GuardContent("git") = {<<"git", "node">>}
  /\ GuardContent("requirements") = {}
  /\ \A c \in Component : GuardContent(c) = ContentOf(c)
BY GuardTypes DEF GuardContent

LEMMA Making ==
  /\ Makes("compose") = {<<"packages", "node">>} /\ Makes("git") = {<<"git", "node">>}
  /\ Makes("requirements") = {<<"repo", "requirements">>}
  /\ \A c \in Component : Makes(c) = {<<"repo", c>>, <<"etc", c>>}
BY GuardTypes DEF Makes

\* The steps that make something, and what is then certain.
LEMMA StepFields ==
  /\ \A g : Enter(g).op = "enter" /\ Enter(g).on = g
  /\ \A op, on, what : LET m == Make(op, on, what) IN
       m.op = op /\ m.on = on /\ m.what = what /\ Item(m) = <<what, on>>
  /\ \A g : Certain(Enter(g)) = GuardContent(g)
  /\ \A on, what : Certain(Make("work", on, what)) = {<<what, on>>}
  /\ \A on, what : Certain(Make("clone", on, what)) = {}
  /\ \A on, what : Certain(Make("pip", on, what)) = {<<what, on>>} \cup Reads(Make("pip", on, what))
<1>1. /\ \A g : Enter(g).op = "enter" /\ Enter(g).on = g
      /\ \A op, on, what : LET m == Make(op, on, what) IN
           m.op = op /\ m.on = on /\ m.what = what /\ Item(m) = <<what, on>>
  BY DEF Enter, Make, Item
<1>2. \A g : Certain(Enter(g)) = GuardContent(g)
  BY <1>1 DEF Certain
<1>3. \A on, what : Certain(Make("work", on, what)) = {<<what, on>>}
  BY <1>1 DEF Certain
<1>4. \A on, what : Certain(Make("clone", on, what)) = {}
  BY <1>1 DEF Certain
<1>5. \A on, what : Certain(Make("pip", on, what)) = {<<what, on>>} \cup Reads(Make("pip", on, what))
  BY <1>1 DEF Certain
<1> QED
  BY <1>1, <1>2, <1>3, <1>4, <1>5

\* What a step of the program of g may be.
Fits(step, g) ==
  /\ step.op = "enter" => step = Enter(step.on) /\ step.on \in Guard /\ Rank(step.on) < Rank(g)
  /\ step.op \in {"work", "clone"} => g # None /\ Item(step) \in Makes(g)

LEMMA EnterFits ==
  ASSUME NEW h \in Guard, NEW g, Rank(h) < Rank(g)
  PROVE  Fits(Enter(h), g)
BY StepFields DEF Fits

LEMMA MakeFits ==
  ASSUME NEW op \in {"work", "clone"}, NEW on, NEW what, NEW g \in Guard, <<what, on>> \in Makes(g)
  PROVE  Fits(Make(op, on, what), g)
BY StepFields, GuardTypes DEF Fits

LEMMA PipFits ==
  ASSUME NEW on, NEW what, NEW g
  PROVE  Fits(Make("pip", on, what), g)
BY StepFields DEF Fits

\* The content of what a program stands for.
ContentFor(t, g) == IF g = None THEN ContentOf(Asked[t]) ELSE GuardContent(g)

LEMMA ShortPrograms ==
  /\ \A x \in StepSet : <<x>> \in Seq(StepSet) /\ Len(<<x>>) = 1 /\ <<x>>[1] = x
  /\ \A x, y \in StepSet :
       <<x, y>> \in Seq(StepSet) /\ Len(<<x, y>>) = 2 /\ <<x, y>>[1] = x /\ <<x, y>>[2] = y
  /\ \A x, y, z \in StepSet :
       /\ <<x, y, z>> \in Seq(StepSet) /\ Len(<<x, y, z>>) = 3
       /\ <<x, y, z>>[1] = x /\ <<x, y, z>>[2] = y /\ <<x, y, z>>[3] = z
OBVIOUS

LEMMA Programs ==
  ASSUME NEW t \in Thread, NEW g \in Guard \cup {None}
  PROVE  /\ Program(t, g) \in Seq(StepSet)
         /\ \A j \in 1 .. Len(Program(t, g)) : Fits(Program(t, g)[j], g)
         /\ \A x \in ContentFor(t, g) :
              \E j \in 1 .. Len(Program(t, g)) : x \in Certain(Program(t, g)[j])
<1> DEFINE p == Program(t, g)
           Result == /\ p \in Seq(StepSet)
                     /\ \A j \in 1 .. Len(p) : Fits(p[j], g)
                     /\ \A x \in ContentFor(t, g) : \E j \in 1 .. Len(p) : x \in Certain(p[j])
<1> SUFFICES Result
  OBVIOUS
<1>1. CASE g = "compose"
  <2>1. p = <<Make("work", "node", "packages")>>
    BY <1>1, BodyProgram
  <2>2. p \in Seq(StepSet) /\ Len(p) = 1 /\ p[1] = Make("work", "node", "packages")
    BY <2>1, Steps, ShortPrograms
  <2> HIDE DEF p
  <2>3. Fits(p[1], g)
    <3>1. <<"packages", "node">> \in Makes(g) /\ g \in Guard
      BY <1>1, Making, GuardTypes
    <3> QED
      BY <2>2, <3>1, MakeFits
  <2>4. ContentFor(t, g) = Certain(p[1])
    BY <1>1, <2>2, GuardContents, StepFields, GuardTypes DEF ContentFor
  <2> QED
    BY <2>2, <2>3, <2>4
<1>2. CASE g = "git"
  <2>1. p = <<Make("work", "node", "git")>>
    BY <1>2, BodyProgram
  <2>2. p \in Seq(StepSet) /\ Len(p) = 1 /\ p[1] = Make("work", "node", "git")
    BY <2>1, Steps, ShortPrograms
  <2> HIDE DEF p
  <2>3. Fits(p[1], g)
    <3>1. <<"git", "node">> \in Makes(g) /\ g \in Guard
      BY <1>2, Making, GuardTypes
    <3> QED
      BY <2>2, <3>1, MakeFits
  <2>4. ContentFor(t, g) = Certain(p[1])
    BY <1>2, <2>2, GuardContents, StepFields, GuardTypes DEF ContentFor
  <2> QED
    BY <2>2, <2>3, <2>4
<1>3. CASE g = "requirements"
  <2>1. p \in Seq(StepSet) /\ Len(p) = 2 /\ p[1] = Enter("git") /\ p[2] = Make("clone", "requirements", "repo")
    <3>1. p = <<Enter("git"), Make("clone", "requirements", "repo")>>
      BY <1>3, BodyProgram
    <3>2. Enter("git") \in StepSet /\ Make("clone", "requirements", "repo") \in StepSet
      BY Steps, GuardTypes
    <3> QED
      BY <3>1, <3>2, ShortPrograms
  <2> HIDE DEF p
  <2>2. Fits(p[1], g) /\ Fits(p[2], g)
    <3>1. <<"repo", "requirements">> \in Makes(g) /\ g \in Guard
      BY <1>3, Making, GuardTypes
    <3>2. "git" \in Guard /\ Rank("git") < Rank(g)
      BY <1>3, Ranks, GuardTypes
    <3>3. Fits(p[1], g)
      BY <2>1, <3>2, EnterFits
    <3> QED
      BY <2>1, <3>1, <3>3, MakeFits
  <2>3. ContentFor(t, g) = {}
    BY <1>3, GuardContents, GuardTypes DEF ContentFor
  <2> QED
    BY <2>1, <2>2, <2>3
<1>4. CASE g \in Source
  <2>1. p = have_content(g)
    BY <1>4, BodyProgram, GuardTypes
  <2>2. /\ p \in Seq(StepSet) /\ Len(p) = 10
        /\ p[1] = Enter("compose") /\ p[2] = Enter("git") /\ p[3] = Make("clone", g, "repo")
        /\ p[4] = Enter("requirements") /\ p[5] = Enter("compose") /\ p[6] = Make("pip", g, "reqs")
        /\ p[7] = Enter("requirements") /\ p[8] = Enter("compose") /\ p[9] = Make("pip", g, "develop")
        /\ p[10] = Make("work", g, "etc")
    BY <1>4, <2>1, SourceProgram
  <2> HIDE DEF p
  <2>3. g \in Component /\ g \in Guard /\ Rank(g) = 3 /\ {<<"repo", g>>, <<"etc", g>>} \subseteq Makes(g)
    BY <1>4, GuardTypes, Ranks, Making
  <2>4. Fits(p[1], g) /\ Fits(p[2], g) /\ Fits(p[4], g) /\ Fits(p[5], g) /\ Fits(p[7], g) /\ Fits(p[8], g)
    BY <2>2, <2>3, EnterFits, Ranks, GuardTypes
  <2>5. Fits(p[3], g) /\ Fits(p[6], g) /\ Fits(p[9], g) /\ Fits(p[10], g)
    BY <2>2, <2>3, MakeFits, PipFits
  <2>6. <<"packages", "node">> \in Certain(p[1])
    BY <2>2, StepFields, GuardContents
  <2>7. <<"reqs", g>> \in Certain(p[6]) /\ <<"repo", g>> \in Certain(p[6])
    BY <2>2, <2>3, StepFields DEF Reads
  <2>8. <<"develop", g>> \in Certain(p[9]) /\ <<"etc", g>> \in Certain(p[10])
    BY <2>2, StepFields
  <2>9. ContentFor(t, g) = {<<"packages", "node">>, <<"etc", g>>, <<"repo", g>>, <<"reqs", g>>, <<"develop", g>>}
    BY <1>4, <2>3, GuardContents, GuardTypes, ComponentAssumption DEF ContentFor, ContentOf
  <2>10. \A j \in 1 .. 10 : Fits(p[j], g)
    BY <2>4, <2>5
  <2>11. \A x \in ContentFor(t, g) : \E j \in 1 .. 10 : x \in Certain(p[j])
    BY <2>6, <2>7, <2>8, <2>9
  <2> QED
    BY <2>2, <2>10, <2>11
<1>5. CASE g \in Component \ Source
  <2>1. p = have_content(g)
    BY <1>5, BodyProgram
  <2>2. p \in Seq(StepSet) /\ Len(p) = 2 /\ p[1] = Enter("compose") /\ p[2] = Make("work", g, "etc")
    BY <1>5, <2>1, PackagedProgram
  <2> HIDE DEF p
  <2>3. g \in Guard /\ Rank(g) = 3 /\ <<"etc", g>> \in Makes(g)
    BY <1>5, GuardTypes, Ranks, Making
  <2>4. Fits(p[1], g) /\ Fits(p[2], g)
    BY <2>2, <2>3, EnterFits, MakeFits, Ranks, GuardTypes
  <2>5. <<"packages", "node">> \in Certain(p[1]) /\ <<"etc", g>> \in Certain(p[2])
    BY <2>2, StepFields, GuardContents
  <2>6. ContentFor(t, g) = {<<"packages", "node">>, <<"etc", g>>}
    BY <1>5, <2>3, GuardContents, GuardTypes, ComponentAssumption DEF ContentFor, ContentOf
  <2> QED
    BY <2>2, <2>4, <2>5, <2>6
<1>6. CASE g = None /\ Asked[t] = Client
  <2>1. /\ p \in Seq(StepSet) /\ Len(p) = 3
        /\ p[1] = Enter("requirements") /\ p[2] = Enter("compose") /\ p[3] = Make("pip", Client, "client")
    <3>1. p = <<Enter("requirements"), Enter("compose"), Make("pip", Client, "client")>>
      BY <1>6, CallProgram
    <3>2. Enter("requirements") \in StepSet /\ Enter("compose") \in StepSet /\ Make("pip", Client, "client") \in StepSet
      BY Steps, GuardTypes
    <3> QED
      BY <3>1, <3>2, ShortPrograms
  <2> HIDE DEF p
  <2>2. Fits(p[1], g) /\ Fits(p[2], g) /\ Fits(p[3], g)
    BY <1>6, <2>1, EnterFits, PipFits, Ranks, GuardTypes
  <2>3. <<"packages", "node">> \in Certain(p[2]) /\ <<"client", Client>> \in Certain(p[3])
    BY <2>1, StepFields, GuardContents
  <2>4. ContentFor(t, g) = {<<"packages", "node">>, <<"client", Client>>}
    BY <1>6, ComponentAssumption DEF ContentFor, ContentOf
  <2> QED
    BY <2>1, <2>2, <2>3, <2>4
<1>7. CASE g = None /\ Asked[t] # Client
  <2>1. Asked[t] \in Component
    BY <1>7, ThreadAssumption
  <2>2. p \in Seq(StepSet) /\ Len(p) = 1 /\ p[1] = Enter(Asked[t])
    <3>1. p = <<Enter(Asked[t])>>
      BY <1>7, CallProgram
    <3>2. Enter(Asked[t]) \in StepSet
      BY <2>1, Steps, GuardTypes
    <3> QED
      BY <3>1, <3>2, ShortPrograms
  <2> HIDE DEF p
  <2>3. Fits(p[1], g)
    BY <1>7, <2>1, <2>2, EnterFits, Ranks, GuardTypes
  <2>4. ContentFor(t, g) = Certain(p[1])
    BY <1>7, <2>1, <2>2, StepFields, GuardContents DEF ContentFor
  <2> QED
    BY <2>2, <2>3, <2>4
<1> QED
  BY <1>1, <1>2, <1>3, <1>4, <1>5, <1>6, <1>7 DEF Guard

-----------------------------------------------------------------------------
(* The stack of a thread, and what its operations leave true of it.        *)

LEMMA StackOperations ==
  ASSUME NEW frames \in Seq(FrameSet), frames # << >>
  PROVE  LET n == Len(frames) IN
         /\ n \in Nat /\ n >= 1 /\ Last(frames) = frames[n] /\ frames[n] \in FrameSet
         /\ Front(frames) \in Seq(FrameSet) /\ Len(Front(frames)) = n - 1
         /\ \A i \in 1 .. n - 1 : Front(frames)[i] = frames[i]
<1> DEFINE n == Len(frames)
<1>1. n \in Nat /\ n >= 1 /\ \A i \in 1 .. n : frames[i] \in FrameSet
  BY EmptySeq, LenProperties, ElementOfSeq
<1>2. Front(frames) = SubSeq(frames, 1, n - 1) /\ Last(frames) = frames[n]
  BY DEF Front, Last
<1>3. 1 \in Int /\ n - 1 \in Int /\ \A i \in 1 .. n - 1 : frames[i] \in FrameSet
  BY <1>1
<1> DEFINE front == SubSeq(frames, 1, n - 1)
<1>4. /\ front \in Seq(FrameSet) /\ Len(front) = IF 1 <= n - 1 THEN n - 1 - 1 + 1 ELSE 0
      /\ \A i \in 1 .. n - 1 - 1 + 1 : front[i] = frames[1 + i - 1]
  BY <1>3, SubSeqProperties
<1> HIDE DEF front, n
<1>5. Len(front) = n - 1 /\ \A i \in 1 .. n - 1 : front[i] = frames[i]
  BY <1>1, <1>4
<1> QED
  BY <1>1, <1>2, <1>4, <1>5 DEF front, n

LEMMA Advance ==
  ASSUME NEW frames \in Seq(FrameSet), frames # << >>, Last(frames).steps # << >>
  PROVE  LET n == Len(frames)
             new == Advanced(frames) IN
         /\ new \in Seq(FrameSet) /\ Len(new) = n
         /\ \A i \in 1 .. n - 1 : new[i] = frames[i]
         /\ new[n].guard = frames[n].guard /\ new[n].steps = Tail(frames[n].steps)
<1> DEFINE n == Len(frames)
           f == [Last(frames) EXCEPT !.steps = Tail(@)]
<1>1. /\ n \in Nat /\ n >= 1 /\ Last(frames) = frames[n] /\ frames[n] \in FrameSet
      /\ Front(frames) \in Seq(FrameSet) /\ Len(Front(frames)) = n - 1
      /\ \A i \in 1 .. n - 1 : Front(frames)[i] = frames[i]
  BY StackOperations
<1>2. frames[n].steps \in Seq(StepSet) /\ Tail(frames[n].steps) \in Seq(StepSet)
  BY <1>1, HeadTailProperties DEF FrameSet
<1>3. f \in FrameSet /\ f.guard = frames[n].guard /\ f.steps = Tail(frames[n].steps)
  BY <1>1, <1>2 DEF FrameSet
<1>4. Advanced(frames) = Append(Front(frames), f)
  BY DEF Advanced
<1> HIDE DEF f, n
<1>5. /\ Append(Front(frames), f) \in Seq(FrameSet) /\ Len(Append(Front(frames), f)) = Len(Front(frames)) + 1
      /\ \A i \in 1 .. Len(Front(frames)) : Append(Front(frames), f)[i] = Front(frames)[i]
      /\ Append(Front(frames), f)[Len(Front(frames)) + 1] = f
  BY <1>1, <1>3, AppendProperties
<1> QED
  BY <1>1, <1>3, <1>4, <1>5 DEF n

LEMMA FrameFacts ==
  ASSUME NEW t \in Thread, NEW frames \in Seq(FrameSet), NEW c, StackOK(t, frames, c),
         NEW i \in 1 .. Len(frames)
  PROVE  LET f == frames[i]
             p == Program(t, f.guard) IN
         /\ f \in FrameSet /\ f.guard \in Guard \cup {None} /\ f.steps \in Seq(StepSet)
         /\ Len(f.steps) \in Nat /\ Len(p) \in Nat
         /\ p \in Seq(StepSet)
         /\ \A j \in 1 .. Len(p) : Fits(p[j], f.guard)
         /\ Stands(f, p, c)
         /\ f.guard = None <=> i = 1
<1>1. frames[i] \in FrameSet
  BY ElementOfSeq
<1>2. frames[i].guard \in Guard \cup {None} /\ frames[i].steps \in Seq(StepSet)
  BY <1>1 DEF FrameSet
<1>3. /\ Program(t, frames[i].guard) \in Seq(StepSet)
      /\ \A j \in 1 .. Len(Program(t, frames[i].guard)) : Fits(Program(t, frames[i].guard)[j], frames[i].guard)
  BY <1>2, Programs
<1>4. Stands(frames[i], Program(t, frames[i].guard), c) /\ (frames[i].guard = None <=> i = 1)
  BY DEF StackOK
<1> QED
  BY <1>1, <1>2, <1>3, <1>4, LenProperties

LEMMA StackGrows ==
  ASSUME NEW t \in Thread, NEW frames, NEW c, NEW d, StackOK(t, frames, c), c \subseteq d
  PROVE  StackOK(t, frames, d)
BY DEF StackOK, Stands

LEMMA StackStarts ==
  ASSUME NEW t \in Thread, NEW c
  PROVE  /\ StackOK(t, << >>, c) /\ Guards(<< >>) = {}
         /\ LET first == <<Frame(None, Call(t))>> IN
            /\ first \in Seq(FrameSet) /\ first # << >> /\ StackOK(t, first, c) /\ Guards(first) = {None}
<1>1. StackOK(t, << >>, c) /\ Guards(<< >>) = {}
  BY DEF StackOK, Guards
<1> DEFINE f == Frame(None, Call(t))
<1>2. Call(t) \in Seq(StepSet) /\ Program(t, None) = Call(t)
  BY Programs DEF Program
<1>3. f \in FrameSet /\ f.guard = None /\ f.steps = Call(t)
  BY <1>2 DEF Frame, FrameSet
<1> HIDE DEF f
<1> DEFINE first == <<f>>
<1>4. first \in Seq(FrameSet) /\ first # << >> /\ Len(first) = 1 /\ first[1] = f
  BY <1>3
<1> HIDE DEF first
<1>5. Stands(f, Call(t), c)
  BY <1>2, <1>3, LenProperties DEF Stands
<1>6. StackOK(t, first, c)
  BY <1>2, <1>3, <1>4, <1>5 DEF StackOK
<1>7. Guards(first) = {None}
  BY <1>3, <1>4 DEF Guards
<1> QED
  BY <1>1, <1>4, <1>6, <1>7 DEF first, f

LEMMA NextStep ==
  ASSUME NEW f, NEW p, NEW c, f.steps \in Seq(StepSet), p \in Seq(StepSet), Stands(f, p, c), f.steps # << >>
  PROVE  LET k == Len(p) - Len(f.steps) + 1 IN
         /\ Len(f.steps) \in Nat /\ Len(f.steps) >= 1 /\ Len(p) \in Nat
         /\ Head(f.steps) \in StepSet /\ k \in 1 .. Len(p) /\ Head(f.steps) = p[k]
<1> DEFINE m == Len(f.steps)
           n == Len(p)
           k == n - m + 1
<1>1. m \in Nat /\ m >= 1 /\ n \in Nat
  BY EmptySeq, LenProperties
<1>2. Head(f.steps) \in StepSet /\ Head(f.steps) = f.steps[1]
  BY HeadTailProperties
<1>3. m <= n /\ \A j \in 1 .. m : f.steps[j] = p[n - m + j]
  BY DEF Stands
<1> HIDE DEF m, n
<1>4. 1 \in 1 .. m /\ k \in 1 .. n
  BY <1>1, <1>3
<1>5. f.steps[1] = p[n - m + 1]
  BY <1>3, <1>4
<1> QED
  BY <1>1, <1>2, <1>4, <1>5 DEF m, n

\* The next step of the top frame is a step of its program.
LEMMA TopStep ==
  ASSUME NEW t \in Thread, NEW frames \in Seq(FrameSet), NEW c, StackOK(t, frames, c),
         frames # << >>, Last(frames).steps # << >>
  PROVE  LET step == Head(Last(frames).steps) IN
         step \in StepSet /\ Fits(step, Last(frames).guard)
<1> DEFINE n == Len(frames)
           f == frames[n]
           p == Program(t, f.guard)
<1>1. n \in Nat /\ n >= 1 /\ Last(frames) = f /\ n \in 1 .. n
  BY StackOperations
<1>2. /\ f.steps \in Seq(StepSet) /\ p \in Seq(StepSet)
      /\ \A j \in 1 .. Len(p) : Fits(p[j], f.guard)
      /\ Stands(f, p, c)
  BY <1>1, FrameFacts
<1> HIDE DEF n, f, p
<1>3. f.steps # << >>
  BY <1>1
<1> DEFINE k == Len(p) - Len(f.steps) + 1
<1>4. Head(f.steps) \in StepSet /\ k \in 1 .. Len(p) /\ Head(f.steps) = p[k]
  BY <1>2, <1>3, NextStep
<1> HIDE DEF k
<1>5. Fits(p[k], f.guard)
  BY <1>2, <1>4
<1> QED
  BY <1>1, <1>4, <1>5

LEMMA StackAdvances ==
  ASSUME NEW t \in Thread, NEW frames \in Seq(FrameSet), NEW c, StackOK(t, frames, c),
         frames # << >>, Last(frames).steps # << >>, Certain(Head(Last(frames).steps)) \subseteq c
  PROVE  /\ Advanced(frames) \in Seq(FrameSet) /\ Advanced(frames) # << >>
         /\ StackOK(t, Advanced(frames), c) /\ Guards(Advanced(frames)) = Guards(frames)
<1> DEFINE n == Len(frames)
           f == frames[n]
           p == Program(t, f.guard)
           new == Advanced(frames)
           g == new[n]
<1>1. n \in Nat /\ n >= 1 /\ Last(frames) = f /\ n \in 1 .. n
  BY StackOperations
<1>2. /\ new \in Seq(FrameSet) /\ Len(new) = n
      /\ \A i \in 1 .. n - 1 : new[i] = frames[i]
      /\ g.guard = f.guard /\ g.steps = Tail(f.steps)
  BY Advance
<1>3. f.steps \in Seq(StepSet) /\ p \in Seq(StepSet) /\ Stands(f, p, c)
  BY <1>1, FrameFacts
<1>4. \A i \in 1 .. n : new[i].guard = frames[i].guard
  BY <1>1, <1>2
<1>5. Stands(g, p, c)
  <2>1. f.steps # << >> /\ Certain(Head(f.steps)) \subseteq c
    BY <1>1
  <2> HIDE DEF n, f, p, new, g
  <2> DEFINE l == Len(f.steps)
             m == Len(p)
             k == m - l + 1
  <2>2. l \in Nat /\ l >= 1 /\ m \in Nat /\ k \in 1 .. m /\ Head(f.steps) = p[k]
    BY <1>3, <2>1, NextStep
  <2>3. Len(g.steps) = l - 1 /\ \A j \in 1 .. l - 1 : g.steps[j] = f.steps[j + 1]
    <3>1. Len(Tail(f.steps)) = l - 1 /\ \A j \in 1 .. Len(Tail(f.steps)) : Tail(f.steps)[j] = f.steps[j + 1]
      BY <1>3, <2>1, HeadTailProperties
    <3> QED
      BY <1>2, <3>1
  <2>4. /\ l <= m /\ \A j \in 1 .. l : f.steps[j] = p[m - l + j]
        /\ \A j \in 1 .. m - l : Certain(p[j]) \subseteq c
    BY <1>3 DEF Stands
  <2> HIDE DEF l, m
  <2>5. ASSUME NEW j \in 1 .. l - 1
        PROVE  g.steps[j] = p[m - (l - 1) + j]
    <3>1. j + 1 \in 1 .. l /\ g.steps[j] = f.steps[j + 1]
      BY <2>2, <2>3
    <3>2. f.steps[j + 1] = p[m - l + (j + 1)]
      BY <2>4, <3>1
    <3>3. m - l + (j + 1) = m - (l - 1) + j
      BY <2>2
    <3> QED
      BY <3>1, <3>2, <3>3
  <2>6. ASSUME NEW j \in 1 .. m - (l - 1)
        PROVE  Certain(p[j]) \subseteq c
    <3>1. CASE j \in 1 .. m - l
      BY <2>4, <3>1
    <3>2. CASE j = k
      BY <2>1, <2>2, <3>2
    <3> QED
      BY <2>2, <3>1, <3>2
  <2>7. Len(g.steps) <= m
    BY <2>2, <2>3, <2>4
  <2> QED
    BY <2>3, <2>5, <2>6, <2>7 DEF Stands, m
<1>6. StackOK(t, new, c)
  <2> HIDE DEF new, g, p
  <2>1. ASSUME NEW i \in 1 .. n
        PROVE  (new[i].guard = None <=> i = 1) /\ Stands(new[i], Program(t, new[i].guard), c)
    <3>1. CASE i = n
      BY <1>1, <1>4, <1>5, <3>1 DEF StackOK, g, p
    <3>2. CASE i \in 1 .. n - 1
      BY <1>1, <1>2, <3>2 DEF StackOK
    <3> QED
      BY <1>1, <3>1, <3>2
  <2>2. ASSUME NEW i \in 1 .. n - 1
        PROVE  new[i].steps # << >> /\ Head(new[i].steps) = Enter(new[i + 1].guard)
    <3>1. new[i] = frames[i] /\ new[i + 1].guard = frames[i + 1].guard
      BY <1>1, <1>2, <1>4
    <3> QED
      BY <3>1 DEF StackOK
  <2>3. \A i, j \in 1 .. n : i < j => Rank(new[j].guard) < Rank(new[i].guard)
    BY <1>4 DEF StackOK
  <2> QED
    BY <1>2, <2>1, <2>2, <2>3 DEF StackOK
<1>7. Guards(new) = Guards(frames)
  BY <1>2, <1>4 DEF Guards
<1>8. new # << >>
  BY <1>1, <1>2, EmptySeq
<1> QED
  BY <1>2, <1>6, <1>7, <1>8

LEMMA StackEnters ==
  ASSUME NEW t \in Thread, NEW frames \in Seq(FrameSet), NEW c, StackOK(t, frames, c),
         frames # << >>, Last(frames).steps # << >>,
         NEW h \in Guard, Head(Last(frames).steps) = Enter(h)
  PROVE  LET new == Append(frames, Frame(h, Body(h))) IN
         /\ new \in Seq(FrameSet) /\ new # << >>
         /\ StackOK(t, new, c) /\ Guards(new) = Guards(frames) \cup {h} /\ h \notin Guards(frames)
<1> DEFINE n == Len(frames)
           f == Frame(h, Body(h))
           new == Append(frames, f)
<1>1. n \in Nat /\ n >= 1 /\ Last(frames) = frames[n] /\ n \in 1 .. n /\ h # None
  BY StackOperations, GuardTypes
<1>2. Body(h) \in Seq(StepSet) /\ Program(t, h) = Body(h)
  BY <1>1, Programs DEF Program
<1>3. f \in FrameSet /\ f.guard = h /\ f.steps = Body(h)
  BY <1>2 DEF Frame, FrameSet
<1>4. Stands(f, Program(t, f.guard), c)
  BY <1>2, <1>3, LenProperties DEF Stands
<1> HIDE DEF f
<1>5. /\ new \in Seq(FrameSet) /\ new # << >> /\ Len(new) = n + 1
      /\ \A i \in 1 .. n : new[i] = frames[i]
      /\ new[n + 1] = f
  BY <1>3, AppendProperties
<1> HIDE DEF new, n
<1>6. Rank(h) < Rank(frames[n].guard)
  <2>1. Fits(Head(Last(frames).steps), Last(frames).guard)
    BY TopStep
  <2> QED
    BY <1>1, <2>1, StepFields DEF Fits
<1>7. \A i \in 1 .. n : Rank(frames[i].guard) \in Nat
  <2>1. \A i \in 1 .. n : frames[i].guard \in Guard \cup {None}
    BY FrameFacts DEF n
  <2>2. \A g \in Guard \cup {None} : Rank(g) \in Nat
    BY Ranks DEF Guard
  <2> QED
    BY <2>1, <2>2
<1>8. \A i \in 1 .. n : Rank(h) < Rank(frames[i].guard)
  <2>1. \A i, j \in 1 .. n : i < j => Rank(frames[j].guard) < Rank(frames[i].guard)
    BY DEF StackOK, n
  <2>2. Rank(h) \in Nat
    BY Ranks DEF Guard
  <2>3. ASSUME NEW i \in 1 .. n
        PROVE  Rank(h) < Rank(frames[i].guard)
    <3>1. CASE i = n
      BY <1>6, <3>1
    <3>2. CASE i < n
      <4>1. Rank(frames[n].guard) < Rank(frames[i].guard)
        BY <1>1, <2>1, <3>2
      <4>2. Rank(frames[n].guard) \in Nat /\ Rank(frames[i].guard) \in Nat
        BY <1>1, <1>7
      <4> QED
        BY <1>6, <2>2, <4>1, <4>2
    <3> QED
      BY <1>1, <3>1, <3>2
  <2> QED
    BY <2>3
<1>9. StackOK(t, new, c)
  <2>1. ASSUME NEW i \in 1 .. n + 1
        PROVE  (new[i].guard = None <=> i = 1) /\ Stands(new[i], Program(t, new[i].guard), c)
    <3>1. CASE i = n + 1
      BY <1>1, <1>3, <1>4, <1>5, <3>1
    <3>2. CASE i \in 1 .. n
      BY <1>5, <3>2 DEF StackOK, n
    <3> QED
      BY <1>1, <3>1, <3>2
  <2>2. ASSUME NEW i \in 1 .. n
        PROVE  new[i].steps # << >> /\ Head(new[i].steps) = Enter(new[i + 1].guard)
    <3>1. CASE i = n
      BY <1>1, <1>3, <1>5, <3>1
    <3>2. CASE i \in 1 .. n - 1
      <4>1. new[i] = frames[i] /\ new[i + 1] = frames[i + 1]
        BY <1>1, <1>5, <3>2
      <4> QED
        BY <3>2, <4>1 DEF StackOK, n
    <3> QED
      BY <1>1, <3>1, <3>2
  <2>3. ASSUME NEW i \in 1 .. n + 1, NEW j \in 1 .. n + 1, i < j
        PROVE  Rank(new[j].guard) < Rank(new[i].guard)
    <3>1. CASE j = n + 1
      BY <1>1, <1>3, <1>5, <1>8, <2>3, <3>1
    <3>2. CASE j \in 1 .. n
      <4>1. i \in 1 .. n /\ new[i] = frames[i] /\ new[j] = frames[j]
        BY <1>1, <1>5, <2>3, <3>2
      <4> QED
        BY <2>3, <3>2, <4>1 DEF StackOK, n
    <3> QED
      BY <1>1, <3>1, <3>2
  <2> QED
    BY <1>1, <1>5, <2>1, <2>2, <2>3 DEF StackOK
<1>10. Guards(new) = Guards(frames) \cup {h}
  BY <1>1, <1>3, <1>5 DEF Guards, n
<1>11. h \notin Guards(frames)
  BY <1>7, <1>8 DEF Guards, n
<1> QED
  BY <1>5, <1>9, <1>10, <1>11 DEF new, f

LEMMA StackLeaves ==
  ASSUME NEW t \in Thread, NEW frames \in Seq(FrameSet), NEW c, StackOK(t, frames, c), frames # << >>
  PROVE  LET new == Front(frames)
             g == Last(frames).guard IN
         /\ g \in Guard \cup {None} /\ new \in Seq(FrameSet) /\ StackOK(t, new, c)
         /\ Guards(new) = Guards(frames) \ {g} /\ g \in Guards(frames)
         /\ g = None <=> new = << >>
         /\ g # None => Last(new).steps # << >> /\ Head(Last(new).steps) = Enter(g)
<1> DEFINE n == Len(frames)
           g == Last(frames).guard
           new == Front(frames)
<1>1. /\ n \in Nat /\ n >= 1 /\ Last(frames) = frames[n] /\ n \in 1 .. n
      /\ new \in Seq(FrameSet) /\ Len(new) = n - 1 /\ \A i \in 1 .. n - 1 : new[i] = frames[i]
  BY StackOperations
<1>2. /\ \A i \in 1 .. n : frames[i].guard \in Guard \cup {None}
      /\ \A i \in 1 .. n : Rank(frames[i].guard) \in Nat
      /\ \A i \in 1 .. n : frames[i].guard = None <=> i = 1
  <2>1. \A i \in 1 .. n : frames[i].guard \in Guard \cup {None}
    BY FrameFacts
  <2>2. \A h \in Guard \cup {None} : Rank(h) \in Nat
    BY Ranks DEF Guard
  <2>3. \A i \in 1 .. n : frames[i].guard = None <=> i = 1
    BY DEF StackOK
  <2> QED
    BY <2>1, <2>2, <2>3
<1> HIDE DEF n, new
<1>3. StackOK(t, new, c)
  <2>1. \A i \in 1 .. n - 1 : i \in 1 .. n /\ new[i] = frames[i]
    BY <1>1
  <2>2. \A i \in 1 .. n - 1 : (new[i].guard = None <=> i = 1) /\ Stands(new[i], Program(t, new[i].guard), c)
    BY <2>1 DEF StackOK, n
  <2>3. ASSUME NEW i \in 1 .. (n - 1) - 1
        PROVE  new[i].steps # << >> /\ Head(new[i].steps) = Enter(new[i + 1].guard)
    <3>1. i \in 1 .. n - 1 /\ new[i] = frames[i] /\ new[i + 1] = frames[i + 1]
      BY <1>1
    <3> QED
      BY <3>1 DEF StackOK, n
  <2>4. \A i, j \in 1 .. n - 1 : i < j => Rank(new[j].guard) < Rank(new[i].guard)
    BY <2>1 DEF StackOK, n
  <2> QED
    BY <1>1, <2>2, <2>3, <2>4 DEF StackOK
<1>4. g \in Guards(frames)
  BY <1>1 DEF Guards, n
<1>5. \A i \in 1 .. n - 1 : frames[i].guard # g
  <2>1. ASSUME NEW i \in 1 .. n - 1
        PROVE  Rank(frames[n].guard) < Rank(frames[i].guard)
    BY <1>1 DEF StackOK, n
  <2> QED
    BY <1>1, <1>2, <2>1
<1>6. Guards(new) = Guards(frames) \ {g}
  <2>1. Guards(frames) = {frames[i].guard : i \in 1 .. n - 1} \cup {frames[n].guard}
    BY <1>1 DEF Guards, n
  <2>2. Guards(new) = {frames[i].guard : i \in 1 .. n - 1}
    BY <1>1 DEF Guards
  <2> QED
    BY <1>1, <1>5, <2>1, <2>2
<1>7. g = None <=> n = 1
  BY <1>1, <1>2
<1>8. new = << >> <=> n = 1
  BY <1>1, EmptySeq
<1>9. ASSUME g # None
      PROVE  Last(new).steps # << >> /\ Head(Last(new).steps) = Enter(g)
  <2>1. n - 1 \in 1 .. n - 1 /\ new # << >>
    BY <1>1, <1>7, <1>8, <1>9
  <2>2. Last(new) = new[n - 1] /\ new[n - 1] = frames[n - 1]
    BY <1>1, <2>1, StackOperations
  <2>3. frames[n - 1].steps # << >> /\ Head(frames[n - 1].steps) = Enter(frames[(n - 1) + 1].guard)
    BY <2>1 DEF StackOK, n
  <2> QED
    BY <1>1, <2>2, <2>3
<1> QED
  BY <1>1, <1>2, <1>3, <1>4, <1>6, <1>7, <1>8, <1>9 DEF new

\* A program that ended has left all its content.
LEMMA TopComplete ==
  ASSUME NEW t \in Thread, NEW frames \in Seq(FrameSet), NEW c, StackOK(t, frames, c),
         frames # << >>, Last(frames).steps = << >>
  PROVE  ContentFor(t, Last(frames).guard) \subseteq c
<1> DEFINE n == Len(frames)
           f == frames[n]
           p == Program(t, f.guard)
<1>1. n \in Nat /\ n >= 1 /\ Last(frames) = f /\ n \in 1 .. n
  BY StackOperations
<1>2. f.guard \in Guard \cup {None} /\ p \in Seq(StepSet) /\ Stands(f, p, c)
  BY <1>1, FrameFacts
<1>3. \A x \in ContentFor(t, f.guard) : \E j \in 1 .. Len(p) : x \in Certain(p[j])
  BY <1>2, Programs
<1> HIDE DEF n, f, p
<1>4. Len(f.steps) = 0 /\ Len(p) \in Nat
  BY <1>1, <1>2, EmptySeq, LenProperties
<1>5. \A j \in 1 .. Len(p) : Certain(p[j]) \subseteq c
  BY <1>2, <1>4 DEF Stands
<1> QED
  BY <1>1, <1>3, <1>5

-----------------------------------------------------------------------------
(* One lemma per action.                                                   *)

LEMMA CertainOf ==
  ASSUME NEW step
  PROVE  /\ step.op = "enter" => Certain(step) = GuardContent(step.on)
         /\ step.op = "work" => Certain(step) = {Item(step)}
         /\ step.op = "clone" => Certain(step) = {}
         /\ step.op = "pip" => Certain(step) = {Item(step)} \cup Reads(step)
BY DEF Certain

\* What has to be shown of a step of t: what it leaves of t, the rest is
\* left alone, and content only grows.
LEMMA StepOf ==
  ASSUME IInv, NEW t \in Thread, TypeInv', content \subseteq content', DoneInv',
         StackOK(t, stack'[t], content'), ModeInv(t)', LockInv(t)',
         \A u \in Thread \ {t} : stack'[u] = stack[u] /\ mode'[u] = mode[u],
         \A l \in Lock : lock'[l] = lock[l] \/ (lock[l] \in {t, None} /\ lock'[l] \in {t, None})
  PROVE  IInv'
<1>1. ASSUME NEW u \in Thread \ {t}
      PROVE  StackOK(u, stack'[u], content') /\ ModeInv(u)' /\ LockInv(u)'
  <2>1. StackOK(u, stack[u], content) /\ ModeInv(u) /\ LockInv(u)
    BY DEF IInv
  <2>2. stack'[u] = stack[u] /\ mode'[u] = mode[u]
    OBVIOUS
  <2>3. StackOK(u, stack'[u], content')
    BY <2>1, <2>2, StackGrows
  <2>4. ModeInv(u)'
    BY <2>1, <2>2 DEF ModeInv, AtStep, Step, Top
  <2>5. \A l \in Lock : lock'[l] = u <=> lock[l] = u
    BY GuardTypes
  <2>6. LockInv(u)'
    BY <2>1, <2>2, <2>5 DEF LockInv, Lock
  <2> QED
    BY <2>3, <2>4, <2>6
<1> QED
  BY <1>1 DEF IInv

LEMMA Holds ==
  ASSUME IInv, NEW t \in Thread
  PROVE  /\ TypeInv /\ DoneInv /\ stack[t] \in Seq(FrameSet)
         /\ StackOK(t, stack[t], content) /\ ModeInv(t) /\ LockInv(t)
BY DEF IInv, TypeInv

LEMMA AtAStep ==
  ASSUME IInv, NEW t \in Thread, AtStep(t)
  PROVE  /\ stack[t] # << >> /\ Last(stack[t]).steps # << >>
         /\ Step(t) = Head(Last(stack[t]).steps)
         /\ Step(t) \in StepSet /\ Fits(Step(t), Top(t).guard)
         /\ Step(t).op = "enter" => Step(t).on \in Guard /\ Step(t) = Enter(Step(t).on)
<1>1. stack[t] # << >> /\ Last(stack[t]).steps # << >> /\ Step(t) = Head(Last(stack[t]).steps)
  BY DEF AtStep, Step, Top
<1>2. Step(t) \in StepSet /\ Fits(Step(t), Top(t).guard)
  BY <1>1, Holds, TopStep DEF Top
<1> QED
  BY <1>1, <1>2 DEF Fits

LEMMA StartKeeps ==
  ASSUME IInv, NEW t \in Thread, Start(t)
  PROVE  IInv'
<1> DEFINE first == <<Frame(None, Call(t))>>
<1>1. /\ mode[t] = "idle" /\ stack' = [stack EXCEPT ![t] = first]
      /\ mode' = [mode EXCEPT ![t] = "run"] /\ UNCHANGED <<done, lock, content>>
  BY DEF Start, Goto
<1>2. first \in Seq(FrameSet) /\ first # << >> /\ StackOK(t, first, content) /\ Guards(first) = {None}
  BY StackStarts
<1>3. TypeInv /\ DoneInv /\ ModeInv(t) /\ LockInv(t)
  BY Holds
<1>4. stack[t] = << >> /\ Guards(stack[t]) = {}
  BY <1>1, <1>3, StackStarts DEF ModeInv
<1> HIDE DEF first
<1>5. stack'[t] = first /\ mode'[t] = "run"
  BY <1>1, <1>3 DEF TypeInv
<1>6. TypeInv' /\ DoneInv'
  BY <1>1, <1>2, <1>3 DEF TypeInv, DoneInv, Mode
<1>7. ModeInv(t)'
  BY <1>2, <1>5 DEF ModeInv
<1>8. LockInv(t)'
  BY <1>1, <1>2, <1>3, <1>4, <1>5, GuardTypes DEF LockInv
<1> QED
  BY <1>1, <1>2, <1>3, <1>5, <1>6, <1>7, <1>8, StepOf DEF TypeInv

\* A thread goes one step further in its top frame.
LEMMA ProceedKeeps ==
  ASSUME IInv, NEW t \in Thread, AtStep(t), Proceed(t), mode'[t] = "run",
         mode' \in [Thread -> Mode], done' = done, content \subseteq content',
         Certain(Step(t)) \subseteq content',
         \A u \in Thread \ {t} : mode'[u] = mode[u],
         lock' \in [Lock -> Thread \cup {None}], lock'["pip"] # t,
         \A g \in Guard : lock'[g] = lock[g],
         lock'["pip"] = lock["pip"] \/ (lock["pip"] = t /\ lock'["pip"] = None)
  PROVE  IInv'
<1>1. /\ TypeInv /\ DoneInv /\ stack[t] \in Seq(FrameSet)
      /\ StackOK(t, stack[t], content) /\ LockInv(t)
  BY Holds
<1>2. stack[t] # << >> /\ Last(stack[t]).steps # << >> /\ Step(t) = Head(Last(stack[t]).steps)
  BY AtAStep
<1>3. StackOK(t, stack[t], content')
  BY <1>1, StackGrows
<1>4. /\ Advanced(stack[t]) \in Seq(FrameSet) /\ Advanced(stack[t]) # << >>
      /\ StackOK(t, Advanced(stack[t]), content') /\ Guards(Advanced(stack[t])) = Guards(stack[t])
  BY <1>1, <1>2, <1>3, StackAdvances
<1>5. stack' = [stack EXCEPT ![t] = Advanced(stack[t])]
  BY DEF Proceed
<1>6. stack'[t] = Advanced(stack[t]) /\ \A u \in Thread \ {t} : stack'[u] = stack[u]
  BY <1>1, <1>5 DEF TypeInv
<1>7. TypeInv'
  BY <1>1, <1>4, <1>5 DEF TypeInv
<1>8. DoneInv'
  BY <1>1 DEF DoneInv
<1>9. ModeInv(t)'
  BY <1>4, <1>6 DEF ModeInv
<1>10. LockInv(t)'
  BY <1>1, <1>4, <1>6 DEF LockInv
<1>11. \A l \in Lock : lock'[l] = lock[l] \/ (lock[l] \in {t, None} /\ lock'[l] \in {t, None})
  BY DEF Lock
<1> QED
  BY <1>4, <1>6, <1>7, <1>8, <1>9, <1>10, <1>11, StepOf

\* A thread stays where it is and only its mode changes.
LEMMA WaitKeeps ==
  ASSUME IInv, NEW t \in Thread, stack[t] # << >>, NEW m \in {"lock", "pip", "raise"},
         mode' = [mode EXCEPT ![t] = m], UNCHANGED <<done, stack, content>>,
         m = "lock" => AtStep(t) /\ Step(t).op = "enter",
         m = "pip" => AtStep(t) /\ Step(t).op = "pip",
         lock' \in [Lock -> Thread \cup {None}], \A g \in Guard : lock'[g] = lock[g],
         lock'["pip"] = t <=> m = "pip",
         lock'["pip"] = lock["pip"] \/ (lock["pip"] \in {t, None} /\ lock'["pip"] \in {t, None})
  PROVE  IInv'
<1>1. /\ TypeInv /\ DoneInv /\ StackOK(t, stack[t], content) /\ ModeInv(t) /\ LockInv(t)
  BY Holds
<1>2. mode'[t] = m /\ \A u \in Thread \ {t} : mode'[u] = mode[u]
  BY <1>1 DEF TypeInv
<1>3. TypeInv' /\ DoneInv'
  BY <1>1 DEF TypeInv, DoneInv, Mode
<1>4. ModeInv(t)'
  BY <1>2 DEF ModeInv, AtStep, Step, Top
<1>5. LockInv(t)'
  BY <1>1, <1>2 DEF LockInv
<1>6. \A l \in Lock : lock'[l] = lock[l] \/ (lock[l] \in {t, None} /\ lock'[l] \in {t, None})
  BY DEF Lock
<1> QED
  BY <1>1, <1>2, <1>3, <1>4, <1>5, <1>6, StepOf

LEMMA TestDoneKeeps ==
  ASSUME IInv, NEW t \in Thread, TestDone(t)
  PROVE  IInv'
<1>1. /\ mode[t] = "run" /\ AtStep(t) /\ Step(t).op = "enter" /\ UNCHANGED <<done, lock, content>>
      /\ \/ done[Step(t).on] /\ Proceed(t) /\ UNCHANGED mode
         \/ mode' = [mode EXCEPT ![t] = "lock"] /\ UNCHANGED stack
  BY DEF TestDone, Goto
<1>2. /\ TypeInv /\ DoneInv /\ ModeInv(t) /\ LockInv(t)
  BY Holds
<1>3. Step(t).on \in Guard /\ stack[t] # << >>
  BY <1>1, AtAStep
<1>4. lock \in [Lock -> Thread \cup {None}] /\ mode \in [Thread -> Mode] /\ lock["pip"] # t
  BY <1>1, <1>2 DEF TypeInv, LockInv
<1>5. CASE done[Step(t).on] /\ Proceed(t) /\ UNCHANGED mode
  <2>1. Certain(Step(t)) \subseteq content
    BY <1>1, <1>2, <1>3, <1>5, CertainOf DEF DoneInv
  <2> QED
    BY <1>1, <1>4, <1>5, <2>1, ProceedKeeps
<1>6. CASE mode' = [mode EXCEPT ![t] = "lock"] /\ UNCHANGED stack
  BY <1>1, <1>3, <1>4, <1>6, WaitKeeps
<1> QED
  BY <1>1, <1>5, <1>6

LEMMA AcquireKeeps ==
  ASSUME IInv, NEW t \in Thread, Acquire(t)
  PROVE  IInv'
<1> DEFINE h == Step(t).on
           new == Append(stack[t], Frame(h, Body(h)))
<1>1. /\ mode[t] = "lock" /\ lock[h] = None /\ mode' = [mode EXCEPT ![t] = "run"]
      /\ UNCHANGED <<done, content>>
      /\ \/ done[h] /\ Proceed(t) /\ UNCHANGED lock
         \/ lock' = [lock EXCEPT ![h] = t] /\ stack' = [stack EXCEPT ![t] = new]
  BY DEF Acquire, Goto
<1>2. /\ TypeInv /\ DoneInv /\ stack[t] \in Seq(FrameSet)
      /\ StackOK(t, stack[t], content) /\ ModeInv(t) /\ LockInv(t)
  BY Holds
<1>3. AtStep(t) /\ Step(t).op = "enter"
  BY <1>1, <1>2 DEF ModeInv
<1>4. /\ stack[t] # << >> /\ Last(stack[t]).steps # << >> /\ h \in Guard
      /\ Head(Last(stack[t]).steps) = Enter(h)
  BY <1>3, AtAStep
<1>5. /\ lock["pip"] # t /\ mode'[t] = "run" /\ mode' \in [Thread -> Mode]
      /\ \A u \in Thread \ {t} : mode'[u] = mode[u]
  BY <1>1, <1>2 DEF TypeInv, LockInv, Mode
<1>6. CASE done[h] /\ Proceed(t) /\ UNCHANGED lock
  <2>1. Certain(Step(t)) \subseteq content
    BY <1>2, <1>3, <1>4, <1>6, CertainOf DEF DoneInv
  <2>2. lock \in [Lock -> Thread \cup {None}]
    BY <1>2 DEF TypeInv
  <2> QED
    BY <1>1, <1>3, <1>5, <1>6, <2>1, <2>2, ProceedKeeps
<1>7. CASE lock' = [lock EXCEPT ![h] = t] /\ stack' = [stack EXCEPT ![t] = new]
  <2>1. /\ new \in Seq(FrameSet) /\ new # << >> /\ StackOK(t, new, content)
        /\ Guards(new) = Guards(stack[t]) \cup {h}
    BY <1>2, <1>4, StackEnters
  <2> HIDE DEF new, h
  <2>2. stack'[t] = new /\ \A u \in Thread \ {t} : stack'[u] = stack[u]
    BY <1>2, <1>7 DEF TypeInv
  <2>3. lock'[h] = t /\ \A l \in Lock \ {h} : lock'[l] = lock[l]
    BY <1>2, <1>4, <1>7 DEF TypeInv, Lock
  <2>4. TypeInv' /\ DoneInv'
    BY <1>1, <1>2, <1>5, <1>7, <2>1 DEF TypeInv, DoneInv
  <2>5. ModeInv(t)'
    BY <1>5, <2>1, <2>2 DEF ModeInv
  <2>6. \A g \in Guard : lock'[g] = t <=> g \in Guards(new)
    BY <1>2, <2>1, <2>3 DEF LockInv, Lock
  <2>7. lock'["pip"] # t
    BY <1>4, <1>5, <2>3, GuardTypes DEF Lock
  <2>8. LockInv(t)'
    BY <1>5, <2>2, <2>6, <2>7 DEF LockInv
  <2>9. \A l \in Lock : lock'[l] = lock[l] \/ (lock[l] \in {t, None} /\ lock'[l] \in {t, None})
    BY <1>1, <2>3
  <2> QED
    BY <1>1, <1>5, <2>1, <2>2, <2>4, <2>5, <2>8, <2>9, StepOf
<1> QED
  BY <1>1, <1>6, <1>7

LEMMA WorkKeeps ==
  ASSUME IInv, NEW t \in Thread, Work(t)
  PROVE  IInv'
<1>1. /\ mode[t] = "run" /\ AtStep(t) /\ Step(t).op = "work" /\ UNCHANGED <<done, lock>>
      /\ \/ content' = content \cup {Item(Step(t))} /\ Proceed(t) /\ UNCHANGED mode
         \/ mode' = [mode EXCEPT ![t] = "raise"] /\ UNCHANGED <<stack, content>>
  BY DEF Work, Goto
<1>2. /\ TypeInv /\ LockInv(t) /\ stack[t] # << >>
  BY <1>1, Holds, AtAStep
<1>3. lock \in [Lock -> Thread \cup {None}] /\ mode \in [Thread -> Mode] /\ lock["pip"] # t
  BY <1>1, <1>2 DEF TypeInv, LockInv
<1>4. Certain(Step(t)) = {Item(Step(t))}
  BY <1>1, CertainOf
<1>5. CASE content' = content \cup {Item(Step(t))} /\ Proceed(t) /\ UNCHANGED mode
  BY <1>1, <1>3, <1>4, <1>5, ProceedKeeps
<1>6. CASE mode' = [mode EXCEPT ![t] = "raise"] /\ UNCHANGED <<stack, content>>
  BY <1>1, <1>2, <1>3, <1>6, WaitKeeps
<1> QED
  BY <1>1, <1>5, <1>6

LEMMA CloneKeeps ==
  ASSUME IInv, NEW t \in Thread, Clone(t)
  PROVE  IInv'
<1>1. /\ mode[t] = "run" /\ AtStep(t) /\ Step(t).op = "clone" /\ UNCHANGED <<done, lock, mode>>
      /\ content \subseteq content' /\ Proceed(t)
  BY DEF Clone
<1>2. lock \in [Lock -> Thread \cup {None}] /\ mode \in [Thread -> Mode] /\ lock["pip"] # t
  BY <1>1, Holds DEF TypeInv, LockInv
<1>3. Certain(Step(t)) = {}
  BY <1>1, CertainOf
<1> QED
  BY <1>1, <1>2, <1>3, ProceedKeeps

LEMMA PipStartsKeeps ==
  ASSUME IInv, NEW t \in Thread, PipStarts(t)
  PROVE  IInv'
<1>1. /\ mode[t] = "run" /\ AtStep(t) /\ Step(t).op = "pip" /\ lock["pip"] = None
      /\ lock' = [lock EXCEPT !["pip"] = t] /\ mode' = [mode EXCEPT ![t] = "pip"]
      /\ UNCHANGED <<done, stack, content>>
  BY DEF PipStarts, Goto
<1>2. TypeInv /\ stack[t] # << >>
  BY <1>1, Holds, AtAStep
<1>3. /\ lock' \in [Lock -> Thread \cup {None}] /\ lock'["pip"] = t /\ \A g \in Guard : lock'[g] = lock[g]
  BY <1>1, <1>2, GuardTypes DEF TypeInv, Lock
<1> QED
  BY <1>1, <1>2, <1>3, WaitKeeps

LEMMA PipEndsKeeps ==
  ASSUME IInv, NEW t \in Thread, PipEnds(t)
  PROVE  IInv'
<1>1. /\ mode[t] = "pip" /\ lock' = [lock EXCEPT !["pip"] = None] /\ UNCHANGED done
      /\ \/ /\ Reads(Step(t)) \subseteq content /\ content' = content \cup {Item(Step(t))}
            /\ Proceed(t) /\ mode' = [mode EXCEPT ![t] = "run"]
         \/ mode' = [mode EXCEPT ![t] = "raise"] /\ UNCHANGED <<stack, content>>
  BY DEF PipEnds, Goto
<1>2. TypeInv /\ ModeInv(t) /\ LockInv(t)
  BY Holds
<1>3. AtStep(t) /\ Step(t).op = "pip" /\ lock["pip"] = t /\ stack[t] # << >>
  BY <1>1, <1>2, AtAStep DEF ModeInv, LockInv
<1>4. /\ lock' \in [Lock -> Thread \cup {None}] /\ lock'["pip"] = None /\ lock'["pip"] # t
      /\ \A g \in Guard : lock'[g] = lock[g]
  BY <1>1, <1>2, GuardTypes DEF TypeInv, Lock
<1>5. Certain(Step(t)) = {Item(Step(t))} \cup Reads(Step(t))
  BY <1>3, CertainOf
<1>6. CASE /\ Reads(Step(t)) \subseteq content /\ content' = content \cup {Item(Step(t))}
           /\ Proceed(t) /\ mode' = [mode EXCEPT ![t] = "run"]
  <2>1. mode'[t] = "run" /\ mode' \in [Thread -> Mode] /\ \A u \in Thread \ {t} : mode'[u] = mode[u]
    BY <1>2, <1>6 DEF TypeInv, Mode
  <2> QED
    BY <1>1, <1>3, <1>4, <1>5, <1>6, <2>1, ProceedKeeps
<1>7. CASE mode' = [mode EXCEPT ![t] = "raise"] /\ UNCHANGED <<stack, content>>
  BY <1>1, <1>3, <1>4, <1>7, WaitKeeps
<1> QED
  BY <1>1, <1>6, <1>7

LEMMA FinishKeeps ==
  ASSUME IInv, NEW t \in Thread, Finish(t)
  PROVE  IInv'
<1> DEFINE g == Top(t).guard
           rest == Front(stack[t])
<1>1. /\ mode[t] = "run" /\ Last(stack[t]).steps = << >> /\ UNCHANGED content /\ g = Last(stack[t]).guard
      /\ \/ /\ g = None /\ stack' = [stack EXCEPT ![t] = << >>]
            /\ mode' = [mode EXCEPT ![t] = "returned"] /\ UNCHANGED <<done, lock>>
         \/ /\ g # None /\ done' = [done EXCEPT ![g] = TRUE] /\ lock' = [lock EXCEPT ![g] = None]
            /\ stack' = [stack EXCEPT ![t] = Advanced(rest)] /\ UNCHANGED mode
  BY DEF Finish, Goto, Top
<1>2. /\ TypeInv /\ DoneInv /\ stack[t] \in Seq(FrameSet)
      /\ StackOK(t, stack[t], content) /\ ModeInv(t) /\ LockInv(t)
  BY Holds
<1>3. stack[t] # << >> /\ lock["pip"] # t
  BY <1>1, <1>2 DEF ModeInv, LockInv
<1>4. /\ g \in Guard \cup {None} /\ rest \in Seq(FrameSet) /\ StackOK(t, rest, content)
      /\ Guards(rest) = Guards(stack[t]) \ {g} /\ g \in Guards(stack[t])
      /\ g = None <=> rest = << >>
      /\ g # None => Last(rest).steps # << >> /\ Head(Last(rest).steps) = Enter(g)
  BY <1>1, <1>2, <1>3, StackLeaves
<1>5. ContentFor(t, g) \subseteq content
  BY <1>1, <1>2, <1>3, TopComplete
<1> HIDE DEF g, rest
<1>6. CASE /\ g = None /\ stack' = [stack EXCEPT ![t] = << >>]
           /\ mode' = [mode EXCEPT ![t] = "returned"] /\ UNCHANGED <<done, lock>>
  <2>1. stack'[t] = << >> /\ mode'[t] = "returned"
        /\ \A u \in Thread \ {t} : stack'[u] = stack[u] /\ mode'[u] = mode[u]
    BY <1>2, <1>6 DEF TypeInv
  <2>2. /\ << >> \in Seq(FrameSet) /\ StackOK(t, << >>, content) /\ Guards(<< >>) = {}
    BY EmptySeq, StackStarts
  <2>3. TypeInv' /\ DoneInv'
    BY <1>1, <1>2, <1>6, <2>2 DEF TypeInv, DoneInv, Mode
  <2>4. ContentOf(Asked[t]) \subseteq content
    BY <1>5, <1>6 DEF ContentFor
  <2>5. ModeInv(t)'
    BY <1>1, <2>1, <2>4 DEF ModeInv
  <2>6. Guards(stack[t]) \subseteq {None}
    BY <1>4, <1>6, <2>2
  <2>7. LockInv(t)'
    BY <1>2, <1>3, <1>6, <2>1, <2>2, <2>6, GuardTypes DEF LockInv
  <2> QED
    BY <1>1, <1>6, <2>1, <2>2, <2>3, <2>5, <2>7, StepOf
<1>7. CASE /\ g # None /\ done' = [done EXCEPT ![g] = TRUE] /\ lock' = [lock EXCEPT ![g] = None]
           /\ stack' = [stack EXCEPT ![t] = Advanced(rest)] /\ UNCHANGED mode
  <2>1. g \in Guard /\ GuardContent(g) \subseteq content
    BY <1>4, <1>5, <1>7 DEF ContentFor
  <2>2. Certain(Enter(g)) = GuardContent(g)
    BY StepFields
  <2>3. /\ Advanced(rest) \in Seq(FrameSet) /\ Advanced(rest) # << >>
        /\ StackOK(t, Advanced(rest), content) /\ Guards(Advanced(rest)) = Guards(stack[t]) \ {g}
    BY <1>4, <1>7, <2>1, <2>2, StackAdvances
  <2>4. stack'[t] = Advanced(rest) /\ \A u \in Thread \ {t} : stack'[u] = stack[u]
    BY <1>2, <1>7 DEF TypeInv
  <2>5. lock[g] = t /\ lock'[g] = None /\ \A l \in Lock \ {g} : lock'[l] = lock[l]
    BY <1>2, <1>4, <1>7, <2>1 DEF TypeInv, Lock, LockInv
  <2>6. TypeInv'
    BY <1>2, <1>7, <2>1, <2>3 DEF TypeInv
  <2>7. DoneInv'
    BY <1>1, <1>2, <1>7, <2>1 DEF TypeInv, DoneInv
  <2>8. ModeInv(t)'
    BY <1>1, <1>7, <2>3, <2>4 DEF ModeInv
  <2>9. \A h \in Guard : lock'[h] = t <=> h \in Guards(Advanced(rest))
    BY <1>2, <2>1, <2>3, <2>5, GuardTypes DEF LockInv, Lock
  <2>10. LockInv(t)'
    BY <1>1, <1>3, <1>7, <2>1, <2>4, <2>5, <2>9, GuardTypes DEF LockInv, Lock
  <2>11. \A l \in Lock : lock'[l] = lock[l] \/ (lock[l] \in {t, None} /\ lock'[l] \in {t, None})
    BY <2>5
  <2> QED
    BY <1>1, <1>7, <2>3, <2>4, <2>6, <2>7, <2>8, <2>10, <2>11, StepOf
<1> QED
  BY <1>1, <1>6, <1>7

LEMMA UnwindKeeps ==
  ASSUME IInv, NEW t \in Thread, Unwind(t)
  PROVE  IInv'
<1> DEFINE g == Top(t).guard
           rest == Front(stack[t])
<1>1. /\ mode[t] = "raise" /\ stack[t] # << >> /\ g = Last(stack[t]).guard
      /\ stack' = [stack EXCEPT ![t] = rest] /\ UNCHANGED <<done, content>>
      /\ \/ g = None /\ mode' = [mode EXCEPT ![t] = "raised"] /\ UNCHANGED lock
         \/ g # None /\ lock' = [lock EXCEPT ![g] = None] /\ UNCHANGED mode
  BY DEF Unwind, Goto, Top
<1>2. /\ TypeInv /\ DoneInv /\ stack[t] \in Seq(FrameSet)
      /\ StackOK(t, stack[t], content) /\ ModeInv(t) /\ LockInv(t)
  BY Holds
<1>3. lock["pip"] # t
  BY <1>1, <1>2 DEF LockInv
<1>4. /\ g \in Guard \cup {None} /\ rest \in Seq(FrameSet) /\ StackOK(t, rest, content)
      /\ Guards(rest) = Guards(stack[t]) \ {g} /\ g \in Guards(stack[t])
      /\ g = None <=> rest = << >>
  BY <1>1, <1>2, StackLeaves
<1> HIDE DEF g, rest
<1>5. stack'[t] = rest /\ \A u \in Thread \ {t} : stack'[u] = stack[u]
  BY <1>1, <1>2 DEF TypeInv
<1>6. DoneInv'
  BY <1>1, <1>2 DEF DoneInv
<1>7. CASE g = None /\ mode' = [mode EXCEPT ![t] = "raised"] /\ UNCHANGED lock
  <2>1. mode'[t] = "raised" /\ \A u \in Thread \ {t} : mode'[u] = mode[u]
    BY <1>2, <1>7 DEF TypeInv
  <2>2. TypeInv'
    BY <1>1, <1>2, <1>4, <1>7 DEF TypeInv, Mode
  <2>3. ModeInv(t)'
    BY <1>4, <1>5, <1>7, <2>1 DEF ModeInv
  <2>4. LockInv(t)'
    BY <1>2, <1>3, <1>4, <1>5, <1>7, <2>1, GuardTypes DEF LockInv
  <2> QED
    BY <1>1, <1>4, <1>5, <1>6, <1>7, <2>1, <2>2, <2>3, <2>4, StepOf
<1>8. CASE g # None /\ lock' = [lock EXCEPT ![g] = None] /\ UNCHANGED mode
  <2>1. g \in Guard
    BY <1>4, <1>8
  <2>2. lock[g] = t /\ lock'[g] = None /\ \A l \in Lock \ {g} : lock'[l] = lock[l]
    BY <1>2, <1>4, <1>8, <2>1 DEF TypeInv, Lock, LockInv
  <2>3. TypeInv'
    BY <1>1, <1>2, <1>4, <1>8, <2>1 DEF TypeInv
  <2>4. ModeInv(t)'
    BY <1>1, <1>4, <1>5, <1>8 DEF ModeInv
  <2>5. \A h \in Guard : lock'[h] = t <=> h \in Guards(rest)
    BY <1>2, <1>4, <2>1, <2>2, GuardTypes DEF LockInv, Lock
  <2>6. LockInv(t)'
    BY <1>1, <1>3, <1>5, <1>8, <2>1, <2>2, <2>5, GuardTypes DEF LockInv, Lock
  <2>7. \A l \in Lock : lock'[l] = lock[l] \/ (lock[l] \in {t, None} /\ lock'[l] \in {t, None})
    BY <2>2
  <2> QED
    BY <1>1, <1>4, <1>5, <1>6, <1>8, <2>3, <2>4, <2>6, <2>7, StepOf
<1> QED
  BY <1>1, <1>7, <1>8

-----------------------------------------------------------------------------
(* The theorems.                                                           *)

\* Types, the shape of the stacks, which thread has which lock, and what is
\* complete: together they are preserved by every step of have_content.
THEOREM Inductive == Spec => []IInv
<1>1. Init => IInv
  <2> SUFFICES ASSUME Init PROVE IInv
    OBVIOUS
  <2>1. TypeInv
    BY EmptySeq DEF Init, TypeInv, Mode
  <2>2. DoneInv
    BY DEF Init, DoneInv
  <2>3. ASSUME NEW t \in Thread
        PROVE  StackOK(t, stack[t], content) /\ ModeInv(t) /\ LockInv(t)
    <3>1. stack[t] = << >> /\ mode[t] = "idle" /\ \A l \in Lock : lock[l] # t
      BY GuardTypes DEF Init
    <3>2. ModeInv(t)
      BY <3>1 DEF ModeInv
    <3> QED
      BY <3>1, <3>2, StackStarts DEF LockInv, Lock
  <2> QED
    BY <2>1, <2>2, <2>3 DEF IInv
<1>2. IInv /\ [Next]_vars => IInv'
  <2> SUFFICES ASSUME IInv, [Next]_vars PROVE IInv'
    OBVIOUS
  <2>1. CASE UNCHANGED vars
    BY <2>1 DEF vars, IInv, TypeInv, DoneInv, ModeInv, LockInv, AtStep, Step, Top
  <2>2. CASE Next
    BY <2>2, StartKeeps, TestDoneKeeps, AcquireKeeps, FinishKeeps, UnwindKeeps, WorkKeeps,
       CloneKeeps, PipStartsKeeps, PipEndsKeeps DEF Next, Run
  <2> QED
    BY <2>1, <2>2
<1> QED
  BY <1>1, <1>2, PTL DEF Spec

\* However many attempts failed and whoever made it, a call of have_content
\* that returns finds all the content it asked for.
THEOREM ContentWhenReturned == Spec => []ReturnsComplete
<1>1. IInv => ReturnsComplete
  BY DEF IInv, ModeInv, ReturnsComplete
<1> QED
  BY <1>1, Inductive, PTL

\* The flag of a guard is never taken for content that is not there.
THEOREM ContentWhenDone == Spec => []DoneIsComplete
<1>1. IInv => DoneIsComplete
  <2> SUFFICES ASSUME IInv PROVE DoneIsComplete
    OBVIOUS
  <2>1. \A g \in Guard : done[g] => GuardContent(g) \subseteq content
    BY DEF IInv, DoneInv
  <2> QED
    BY <2>1, GuardContents, GuardTypes DEF DoneIsComplete
<1> QED
  BY <1>1, Inductive, PTL

LEMMA MakesApart ==
  /\ \A g, h \in Guard : g # h => Makes(g) \cap Makes(h) = {}
  /\ \A g \in Guard : <<"site", "node">> \notin Makes(g)
<1>1. \A g \in Guard : \/ g \in Component
                      \/ g \in {"compose", "git", "requirements"}
  BY DEF Guard
<1> QED
  BY <1>1, Making, GuardTypes

\* What a thread works on stands behind a lock it has.
LEMMA UsesItsOwn ==
  ASSUME IInv, NEW t \in Thread
  PROVE  \/ Using(t) = {}
         \/ Using(t) = {<<"site", "node">>} /\ lock["pip"] = t
         \/ \E g \in Guard : lock[g] = t /\ Using(t) \subseteq Makes(g)
<1> DEFINE working == mode[t] = "run" /\ AtStep(t) /\ Step(t).op # "enter" /\ Step(t).op # "pip"
<1>1. CASE mode[t] = "pip"
  <2>1. lock["pip"] = t
    BY <1>1, Holds DEF LockInv
  <2>2. Using(t) = {<<"site", "node">>}
    BY <1>1 DEF Using
  <2> QED
    BY <2>1, <2>2
<1>2. CASE working
  <2>1. Using(t) = {Item(Step(t))}
    BY <1>2 DEF Using
  <2>2. Step(t) \in StepSet /\ Fits(Step(t), Top(t).guard) /\ stack[t] # << >>
    BY <1>2, AtAStep
  <2>3. Step(t).op \in {"work", "clone"}
    BY <1>2, <2>2 DEF StepSet
  <2>4. Top(t).guard # None /\ Item(Step(t)) \in Makes(Top(t).guard)
    BY <2>2, <2>3 DEF Fits
  <2>5. Top(t).guard \in Guard \cup {None} /\ Top(t).guard \in Guards(stack[t])
    BY <2>2, Holds, StackLeaves DEF Top
  <2>6. lock[Top(t).guard] = t
    BY <2>4, <2>5, Holds DEF LockInv
  <2> QED
    BY <2>1, <2>4, <2>5, <2>6
<1>3. CASE mode[t] # "pip" /\ ~working
  BY <1>3 DEF Using
<1> QED
  BY <1>1, <1>2, <1>3

\* Two threads never write the same repository or the same files, and only
\* one runs pip.
THEOREM Exclusion == Spec => []OneAtATime
<1>1. IInv => OneAtATime
  <2> SUFFICES ASSUME IInv, NEW t \in Thread, NEW u \in Thread, t # u
               PROVE  Using(t) \cap Using(u) = {}
    BY DEF OneAtATime
  <2> QED
    BY UsesItsOwn, MakesApart
<1> QED
  BY <1>1, Inductive, PTL
=============================================================================
