--------------------------- MODULE UserSyncProofs ---------------------------
(***************************************************************************)
(* Proofs about UserSync: a sync that returns has done all it was asked    *)
(* for, what is wanted stays, and only the sync itself makes roles.        *)
(***************************************************************************)
EXTENDS UserSync, SequenceTheorems, FiniteSetTheorems, TLAPS

-----------------------------------------------------------------------------
(* The inductive invariant.                                                *)

Calls ==
  ({"remove", "add"} \X Group) \cup ({"revoke", "grant"} \X (Scope \X Role))
ChildRec ==
  [items : Seq(User), want : Wants \cup {<<>>}, knows : SUBSET Role,
   step : {"list", "record", "read", "members", "grants", "ended"},
   new : BOOLEAN, had : SUBSET (Scope \X Role), calls : SUBSET Calls, scope : Scope \cup {None}]

TypeInv ==
  /\ phase \in {"idle", "make", "fork", "wait", "returned", "raised"}
  /\ want \in Wants \cup {<<>>} /\ (phase # "idle" => want \in Wants)
  /\ part \in {"domain", "projects", "groups", "roles"}
  /\ phase \in {"make", "fork"} => at \in DOMAIN want
  /\ roles \subseteq Role /\ role_to_id \subseteq Role
  /\ jobs \in Seq(User)
  /\ children \in Seq(ChildRec)
  /\ processes \in Seq(Nat) /\ ToSet(processes) \subseteq DOMAIN children
  /\ phase \notin {"fork", "wait"} => processes = <<>>
  /\ lost \in BOOLEAN

\* Keystone has no grant to a user it does not have, and no such member.
ServerInv ==
  /\ \A g \in grants : g[1] \in DOMAIN users
  /\ \A m \in members : m[1] \in DOMAIN users

\* The roles of the domains that are done are known, those of the others are
\* before there are children.
RolesInv ==
  /\ phase = "make" => \A i \in DOMAIN want : i < at => RolesOf(want[i]) \subseteq role_to_id
  /\ phase = "make" /\ part = "roles" => RolesOf(want[at]) \subseteq role_to_id \cup todo /\ todo \subseteq Role
  /\ phase \in {"fork", "wait"} => \A i \in DOMAIN want : RolesOf(want[i]) \subseteq role_to_id

\* What of the domain the sync is at is still to be made.
LeftOf(d) ==
  IF part = "domain" THEN todo \cup DOMAIN d.projects \cup DOMAIN d.groups
  ELSE IF part = "projects" THEN todo \cup DOMAIN d.groups
  ELSE IF part = "groups" THEN todo ELSE {}
Made(d, o) == o \in DOMAIN objects /\ objects[o] = DescOf(d, o)

ObjectsInv ==
  /\ phase = "make" =>
       /\ part # "roles" => todo \subseteq ObjectsIn(want[at])
       /\ \A i \in DOMAIN want : \A o \in ObjectsIn(want[i]) :
            i < at \/ (i = at /\ o \notin LeftOf(want[at])) => Made(want[i], o)
  /\ phase \in {"fork", "wait", "returned"} =>
       \A i \in DOMAIN want : \A o \in ObjectsIn(want[i]) : Made(want[i], o)

\* A child k whatever other children do.
ChildOK(k) ==
  LET w == UserOf(k.want, Head(k.items)) IN
  k.step # "ended" =>
    /\ k.want \in Wants
    /\ ToSet(k.items) \subseteq Registered(k.want)
    /\ \A u \in Registered(k.want) : \A g \in UserOf(k.want, u).grants : g[2] \in k.knows
    /\ k.step # "list" => k.items # <<>>
    /\ k.step \in {"list", "record", "read"} => k.calls = {}
    /\ k.step = "members" =>
         k.calls \subseteq ({"remove"} \X (Group \ w.member_of)) \cup ({"add"} \X w.member_of)
    /\ k.step = "grants" =>
         k.calls \subseteq ({"revoke"} \X ((Scope \X Role) \ w.grants)) \cup ({"grant"} \X w.grants)
    /\ k.step \in {"read", "members", "grants"} => Head(k.items) \in DOMAIN users
ChildrenInv == \A c \in DOMAIN children : ChildOK(children[c])

\* A sync that nothing disturbs has all running children for itself.
Own == ~lost /\ phase \in {"make", "fork", "wait", "returned"}
OwnInv ==
  Own => \A c \in DOMAIN children :
           Running(c) => c \in ToSet(processes) /\ children[c].want = want

\* The users that have no child yet.
Pending ==
  IF phase = "make" THEN Registered(want)
  ELSE IF phase = "fork"
  THEN ToSet(jobs) \cup UNION {DOMAIN want[i].users : i \in {j \in DOMAIN want : j > at}}
  ELSE {}
Granted(u, g) == <<u, g[1], g[2]>> \in grants
Belongs(u, g) == <<u, g>> \in members
Reached(u) ==
  LET w == UserOf(want, u) IN
  /\ u \in DOMAIN users /\ users[u] = w.email
  /\ \A g \in Scope \X Role : Granted(u, g) <=> g \in w.grants
  /\ \A g \in Group : Belongs(u, g) <=> g \in w.member_of

\* Each user has one child, and is as wanted when it is done with it.
SplitInv ==
  /\ phase = "fork" => IsInjective(jobs) /\ ToSet(jobs) \subseteq DOMAIN want[at].users
  /\ Own =>
       /\ \A c \in DOMAIN children : Running(c) =>
            /\ IsInjective(children[c].items)
            /\ ToSet(children[c].items) \cap Pending = {}
            /\ \A d \in DOMAIN children : Running(d) /\ d # c =>
                 ToSet(children[c].items) \cap ToSet(children[d].items) = {}
       /\ \A u \in Registered(want) :
            u \in Pending \/ (\E c \in DOMAIN children : WorksFor(c, u)) \/ Reached(u)

\* What the first user of a child has and what the child has yet to change of
\* it come to what it is to have.
Progress(k) ==
  LET u == Head(k.items)
      w == UserOf(want, u) IN
  /\ k.step = "record" => (k.new <=> u \notin DOMAIN users)
  /\ k.step \in {"read", "members", "grants"} => users[u] = w.email
  /\ k.step = "read" /\ k.new =>
       (\A g \in Scope \X Role : ~Granted(u, g)) /\ (\A g \in Group : ~Belongs(u, g))
  /\ k.step = "members" =>
       /\ \A g \in Scope \X Role : Granted(u, g) <=> g \in k.had
       /\ \A g \in w.member_of : Belongs(u, g) \/ <<"add", g>> \in k.calls
       /\ \A g \in Group \ w.member_of : Belongs(u, g) => <<"remove", g>> \in k.calls
  /\ k.step = "grants" =>
       /\ \A g \in Group : Belongs(u, g) <=> g \in w.member_of
       /\ \A g \in w.grants : Granted(u, g) \/ <<"grant", g>> \in k.calls
       /\ \A g \in (Scope \X Role) \ w.grants : Granted(u, g) => <<"revoke", g>> \in k.calls
ProgressInv == Own => \A c \in DOMAIN children : Running(c) => Progress(children[c])

IInv ==
  /\ TypeInv /\ ServerInv /\ RolesInv /\ ObjectsInv /\ ChildrenInv
  /\ OwnInv /\ SplitInv /\ ProgressInv

-----------------------------------------------------------------------------
(* Lemmas about what is registered, and about sequences of users.          *)

\* What is registered is a sequence of domains, the first one at least.
LEMMA WantFacts ==
  ASSUME NEW w \in Wants
  PROVE  /\ Len(w) \in Nat \ {0} /\ DOMAIN w = 1 .. Len(w) /\ 1 \in DOMAIN w
         /\ \A i \in DOMAIN w : DomainArgs(w[i])
<1>1. w \in Seq(ToSet(w)) /\ w # <<>>
  BY WantsAssumption
<1>2. Len(w) \in Nat /\ DOMAIN w = 1 .. Len(w) /\ Len(w) # 0
  BY <1>1
<1> QED BY <1>2, WantsAssumption

\* Who is registered, is registered in some domain.
LEMMA RegisteredIs ==
  ASSUME NEW w, NEW u
  PROVE  u \in Registered(w) <=> \E i \in DOMAIN w : u \in DOMAIN w[i].users
BY DEF Registered

\* A user is registered in one domain, UserOf finds it, and what it is to
\* have are roles and groups.
LEMMA UserOfIs ==
  ASSUME NEW w \in Wants, NEW i \in DOMAIN w, NEW u \in DOMAIN w[i].users
  PROVE  UserOf(w, u) = w[i].users[u]
<1> DEFINE j == CHOOSE j \in DOMAIN w : u \in DOMAIN w[j].users
<1>1. j \in DOMAIN w /\ u \in DOMAIN w[j].users
  OBVIOUS
<1> HIDE DEF j
<1>2. j = i
  BY <1>1, WantsAssumption
<1> QED BY <1>2 DEF UserOf, j

LEMMA UserTyped ==
  ASSUME NEW w \in Wants, NEW u \in Registered(w)
  PROVE  /\ u \in User
         /\ UserOf(w, u) \in UserArgs
         /\ UserOf(w, u).grants \subseteq Scope \X Role
         /\ UserOf(w, u).member_of \subseteq Group
<1>1. PICK i \in DOMAIN w : u \in DOMAIN w[i].users
  BY RegisteredIs
<1>2. Dict(w[i].users, User, UserArgs)
  BY <1>1, WantFacts DEF DomainArgs
<1>3. u \in User /\ w[i].users[u] \in UserArgs
  BY <1>1, <1>2 DEF Dict
<1>4. UserOf(w, u) = w[i].users[u]
  BY <1>1, UserOfIs
<1> QED BY <1>3, <1>4 DEF UserArgs

\* The users of a domain are a finite set of users, all of them registered.
LEMMA UsersOfDomain ==
  ASSUME NEW w \in Wants, NEW i \in DOMAIN w
  PROVE  /\ IsFiniteSet(DOMAIN w[i].users)
         /\ DOMAIN w[i].users \subseteq User
         /\ DOMAIN w[i].users \subseteq Registered(w)
<1>1. Dict(w[i].users, User, UserArgs)
  BY WantFacts DEF DomainArgs
<1> QED BY <1>1, RegisteredIs DEF Dict

\* The roles of its users are roles.
LEMMA RolesOfDomain ==
  ASSUME NEW w \in Wants, NEW i \in DOMAIN w
  PROVE  RolesOf(w[i]) \subseteq Role
<1> SUFFICES ASSUME NEW u \in DOMAIN w[i].users, NEW g \in w[i].users[u].grants
             PROVE  g[2] \in Role
  BY DEF RolesOf
<1>1. u \in Registered(w) /\ UserOf(w, u) = w[i].users[u]
  BY RegisteredIs, UserOfIs
<1> QED BY <1>1, UserTyped

\* InOrder puts the members of a finite set in a sequence, each once.
LEMMA InOrderIs ==
  ASSUME NEW S, IsFiniteSet(S)
  PROVE  /\ InOrder(S) \in Seq(S)
         /\ IsInjective(InOrder(S))
         /\ ToSet(InOrder(S)) = S
<1> DEFINE n == Cardinality(S)
           s == InOrder(S)
<1>1. n \in Nat /\ ExistsBijection(1..n, S)
  BY FS_CardinalityType
<1>2. PICK b \in Bijection(1..n, S) : TRUE
  BY <1>1 DEF ExistsBijection
<1>3. b \in [1..n -> S] /\ IsInjective(b)
  BY <1>2 DEF Bijection, Injection, IsInjective
<1>4. s \in [1..n -> S] /\ IsInjective(s)
  BY <1>3 DEF InOrder
<1>5. s \in Injection(1..n, S)
  BY <1>4 DEF Injection, IsInjective
<1>6. IsFiniteSet(1..n) /\ Cardinality(1..n) = n
  BY <1>1, FS_Interval
<1> HIDE DEF n, s
<1>7. s \in Surjection(1..n, S)
  BY <1>5, <1>6, FS_Injection DEF n
<1>8. \A x \in S : \E i \in 1..n : s[i] = x
  BY <1>7 DEF Surjection
<1>9. ToSet(s) = S
  BY <1>4, <1>8 DEF ToSet
<1>10. s \in Seq(S)
  BY <1>1, <1>4
<1> QED BY <1>4, <1>9, <1>10 DEF s

\* The first of a sequence and the others.
LEMMA HeadAndTail ==
  ASSUME NEW S, NEW s \in Seq(S), s # <<>>
  PROVE  /\ Head(s) \in ToSet(s) /\ Head(s) \in S
         /\ Tail(s) \in Seq(S)
         /\ ToSet(Tail(s)) \subseteq ToSet(s)
         /\ \A x \in ToSet(s) : x = Head(s) \/ x \in ToSet(Tail(s))
         /\ IsInjective(s) => IsInjective(Tail(s)) /\ Head(s) \notin ToSet(Tail(s))
<1> DEFINE n == Len(s)
           r == Tail(s)
<1>1. n \in Nat /\ n >= 1 /\ DOMAIN s = 1 .. n /\ Head(s) = s[1] /\ \A i \in 1 .. n : s[i] \in S
  OBVIOUS
<1>2. r \in Seq(S) /\ DOMAIN r = 1 .. (n - 1) /\ \A i \in 1 .. (n - 1) : r[i] = s[i + 1]
  OBVIOUS
<1> HIDE DEF n, r
<1>3. \A x \in ToSet(s) : x = Head(s) \/ x \in ToSet(r)
  <2> SUFFICES ASSUME NEW i \in 1 .. n, i # 1
               PROVE  s[i] \in ToSet(r)
    BY <1>1 DEF ToSet
  <2>1. i - 1 \in 1 .. (n - 1) /\ r[i - 1] = s[i]
    BY <1>1, <1>2
  <2> QED BY <2>1, <1>2 DEF ToSet
<1>4. ToSet(r) \subseteq ToSet(s)
  BY <1>1, <1>2 DEF ToSet
<1>5. ASSUME IsInjective(s) PROVE IsInjective(r) /\ Head(s) \notin ToSet(r)
  <2>1. \A a, b \in 1 .. n : s[a] = s[b] => a = b
    BY <1>5, <1>1 DEF IsInjective
  <2>2. \A a, b \in 1 .. (n - 1) : r[a] = r[b] => a = b
    BY <2>1, <1>1, <1>2
  <2>3. \A a \in 1 .. (n - 1) : r[a] # s[1]
    BY <2>1, <1>1, <1>2
  <2> QED BY <2>2, <2>3, <1>1, <1>2 DEF IsInjective, ToSet
<1> QED BY <1>1, <1>2, <1>3, <1>4, <1>5 DEF ToSet, r

\* A sequence without doubles is cut in two that have nothing in common.
LEMMA CutInTwo ==
  ASSUME NEW S, NEW s \in Seq(S), IsInjective(s), NEW k \in 0 .. Len(s)
  PROVE  /\ SubSeq(s, 1, k) \in Seq(S) /\ SubSeq(s, k + 1, Len(s)) \in Seq(S)
         /\ IsInjective(SubSeq(s, 1, k)) /\ IsInjective(SubSeq(s, k + 1, Len(s)))
         /\ ToSet(SubSeq(s, 1, k)) \subseteq ToSet(s)
         /\ ToSet(SubSeq(s, k + 1, Len(s))) \subseteq ToSet(s)
         /\ ToSet(SubSeq(s, 1, k)) \cap ToSet(SubSeq(s, k + 1, Len(s))) = {}
         /\ \A x \in ToSet(s) : x \in ToSet(SubSeq(s, 1, k)) \/ x \in ToSet(SubSeq(s, k + 1, Len(s)))
<1> DEFINE n == Len(s)
           a == SubSeq(s, 1, k)
           b == SubSeq(s, k + 1, n)
<1>1. n \in Nat /\ DOMAIN s = 1 .. n /\ k \in Nat /\ k <= n
  OBVIOUS
<1>2. a \in Seq(S) /\ DOMAIN a = 1 .. k /\ \A i \in 1 .. k : a[i] = s[i]
  BY <1>1
<1>3. b \in Seq(S) /\ DOMAIN b = 1 .. (n - k) /\ \A i \in 1 .. (n - k) : b[i] = s[i + k]
  BY <1>1
<1>4. \A i, j \in 1 .. n : s[i] = s[j] => i = j
  BY <1>1 DEF IsInjective
<1> HIDE DEF n, a, b
<1>5. IsInjective(a)
  BY <1>1, <1>2, <1>4 DEF IsInjective
<1>6. \A i, j \in 1 .. (n - k) : b[i] = b[j] => i = j
  BY <1>1, <1>3, <1>4
<1>7. ToSet(a) \subseteq ToSet(s)
  BY <1>1, <1>2 DEF ToSet
<1>8. \A i \in 1 .. (n - k) : i + k \in 1 .. n /\ b[i] = s[i + k]
  BY <1>1, <1>3
<1>9. ToSet(b) \subseteq ToSet(s)
  BY <1>1, <1>3, <1>8 DEF ToSet
<1>10. \A i \in 1 .. k : \A j \in 1 .. (n - k) : a[i] # b[j]
  BY <1>1, <1>2, <1>3, <1>4
<1>11. ASSUME NEW x \in ToSet(s) PROVE x \in ToSet(a) \/ x \in ToSet(b)
  <2>1. PICK i \in 1 .. n : x = s[i]
    BY <1>1 DEF ToSet
  <2>2. CASE i <= k
    BY <2>1, <2>2, <1>1, <1>2 DEF ToSet
  <2>3. CASE i > k
    <3>1. i - k \in 1 .. (n - k) /\ b[i - k] = s[i]
      BY <2>1, <2>3, <1>1, <1>3
    <3> QED BY <3>1, <2>1, <1>3 DEF ToSet
  <2> QED BY <2>2, <2>3, <1>1
<1>12. ToSet(a) \cap ToSet(b) = {}
  BY <1>2, <1>3, <1>10 DEF ToSet
<1>13. IsInjective(b)
  BY <1>3, <1>6 DEF IsInjective
<1> QED BY <1>2, <1>3, <1>5, <1>7, <1>9, <1>11, <1>12, <1>13 DEF a, b, n


-----------------------------------------------------------------------------
(* A step of a child keeps the invariant, whatever it is.                  *)

SameUser(u) ==
  /\ u \in DOMAIN users' <=> u \in DOMAIN users
  /\ u \in DOMAIN users => users'[u] = users[u]
  /\ \A g \in Scope \X Role : <<u, g[1], g[2]>> \in grants' <=> <<u, g[1], g[2]>> \in grants
  /\ \A g \in Group : <<u, g>> \in members' <=> <<u, g>> \in members

\* The sync and the other children stay as they are, and of what keystone has
\* only what is of the first user of c changes.
ChildStep(c) ==
  /\ Running(c)
  /\ children' \in Seq(ChildRec) /\ DOMAIN children' = DOMAIN children
  /\ \A d \in DOMAIN children : d # c => children'[d] = children[d]
  /\ UNCHANGED <<objects, OfTheSync>>
  /\ roles' \subseteq Role
  /\ DOMAIN users \subseteq DOMAIN users'
  /\ lost' \in BOOLEAN /\ (lost => lost')
  /\ \A u : u # TheUser(c) \/ children[c].items = <<>> => SameUser(u)

\* What the child makes of itself while its sync has it for itself.
ChildGoesOn(c) ==
  /\ children'[c].step # "ended" => children'[c].want = children[c].want
  /\ children'[c].step = "ended" => children'[c].items = <<>>
  /\ ToSet(children'[c].items) \subseteq ToSet(children[c].items)
  /\ IsInjective(children'[c].items)

\* A running child other than c of a sync that has all for itself has another
\* user, with whom nothing happens.
LEMMA OtherChild ==
  ASSUME IInv, NEW c, ChildStep(c), Own', NEW d \in DOMAIN children, d # c, Running(d)
  PROVE  /\ Own
         /\ children[d].want = want /\ d \in ToSet(processes)
         /\ children[d].step # "list" => SameUser(Head(children[d].items))
<1>1. Own
  BY DEF Own, ChildStep, OfTheSync
<1>2. children[d].want = want /\ d \in ToSet(processes)
  BY <1>1 DEF IInv, OwnInv
<1>3. ASSUME children[d].step # "list" PROVE SameUser(Head(children[d].items))
  <2>1. Running(c) /\ c \in DOMAIN children
    BY DEF ChildStep, Running
  <2>2. children[c] \in ChildRec /\ children[d] \in ChildRec
    BY <2>1 DEF IInv, TypeInv
  <2>3. children[c].items \in Seq(User) /\ children[d].items \in Seq(User)
    BY <2>2 DEF ChildRec
  <2>4. ChildOK(children[d]) /\ children[d].step # "ended"
    BY DEF IInv, ChildrenInv, Running
  <2>5. children[d].items # <<>>
    BY <1>3, <2>4 DEF ChildOK
  <2>6. Head(children[d].items) \in ToSet(children[d].items)
    BY <2>3, <2>5, HeadAndTail
  <2>7. ToSet(children[c].items) \cap ToSet(children[d].items) = {}
    BY <1>1, <2>1 DEF IInv, SplitInv
  <2>8. CASE children[c].items = <<>>
    BY <2>8 DEF ChildStep
  <2>9. CASE children[c].items # <<>>
    <3>1. TheUser(c) \in ToSet(children[c].items)
      BY <2>3, <2>9, HeadAndTail DEF TheUser
    <3> QED BY <3>1, <2>6, <2>7 DEF ChildStep
  <2> QED BY <2>8, <2>9
<1> QED BY <1>1, <1>2, <1>3

LEMMA OtherKeepsProgress ==
  ASSUME IInv, NEW c, ChildStep(c), Own', NEW d \in DOMAIN children, d # c, Running(d)
  PROVE  Progress(children[d])'
<1>1. Own /\ children[d].want = want /\ (children[d].step # "list" => SameUser(Head(children[d].items)))
  BY OtherChild
<1>2. Progress(children[d])
  BY <1>1 DEF IInv, ProgressInv
<1>3. children'[d] = children[d] /\ want' = want
  BY DEF ChildStep, OfTheSync
<1>4. ChildOK(children[d]) /\ children[d] \in ChildRec
  BY DEF IInv, ChildrenInv, TypeInv
<1> DEFINE k == children[d]
           u == Head(k.items)
           w == UserOf(want, u)
<1>5. k.step # "ended" /\ k.step \in {"list", "record", "read", "members", "grants"}
  BY <1>4 DEF ChildRec, Running
<1>6. CASE k.step = "list"
  BY <1>3, <1>6 DEF Progress
<1>7. CASE k.step = "record"
  BY <1>1, <1>2, <1>3, <1>7 DEF Progress, SameUser
<1>8. CASE k.step = "read"
  <2>1. u \in DOMAIN users
    BY <1>4, <1>8 DEF ChildOK
  <2> QED BY <1>1, <1>2, <1>3, <1>8, <2>1 DEF Progress, SameUser, Granted, Belongs
<1>9. CASE k.step = "members"
  <2>1. u \in DOMAIN users /\ k.want \in Wants /\ u \in Registered(want)
    <3>1. k.items \in Seq(User) /\ k.items # <<>> /\ ToSet(k.items) \subseteq Registered(k.want)
      BY <1>4, <1>9 DEF ChildOK, ChildRec
    <3>2. u \in ToSet(k.items)
      BY <3>1, HeadAndTail
    <3> QED BY <1>1, <1>4, <1>9, <3>1, <3>2 DEF ChildOK
  <2>2. w.member_of \subseteq Group /\ w.grants \subseteq Scope \X Role
    BY <2>1, <1>1, UserTyped
  <2> QED BY <1>1, <1>2, <1>3, <1>9, <2>1, <2>2 DEF Progress, SameUser, Granted, Belongs
<1>10. CASE k.step = "grants"
  <2>1. u \in DOMAIN users /\ k.want \in Wants /\ u \in Registered(want)
    <3>1. k.items \in Seq(User) /\ k.items # <<>> /\ ToSet(k.items) \subseteq Registered(k.want)
      BY <1>4, <1>10 DEF ChildOK, ChildRec
    <3>2. u \in ToSet(k.items)
      BY <3>1, HeadAndTail
    <3> QED BY <1>1, <1>4, <1>10, <3>1, <3>2 DEF ChildOK
  <2>2. w.member_of \subseteq Group /\ w.grants \subseteq Scope \X Role
    BY <2>1, <1>1, UserTyped
  <2> QED BY <1>1, <1>2, <1>3, <1>10, <2>1, <2>2 DEF Progress, SameUser, Granted, Belongs
<1> QED BY <1>5, <1>6, <1>7, <1>8, <1>9, <1>10


LEMMA OtherKeepsOK ==
  ASSUME IInv, NEW c, ChildStep(c), NEW d \in DOMAIN children, d # c
  PROVE  ChildOK(children[d])'
<1>1. ChildOK(children[d]) /\ children'[d] = children[d] /\ DOMAIN users \subseteq DOMAIN users'
  BY DEF IInv, ChildrenInv, ChildStep
<1> QED BY <1>1 DEF ChildOK

LEMMA ChildStepKeeps ==
  ASSUME IInv, NEW c, ChildStep(c), ServerInv', ChildOK(children[c])',
         Own' => /\ ChildGoesOn(c)
                 /\ children'[c].step # "ended" => Progress(children[c])'
                 /\ \A u \in ToSet(children[c].items) \ ToSet(children'[c].items) : Reached(u)'
  PROVE  IInv'
<1> USE DEF ChildStep, OfTheSync
<1>1. TypeInv'
  BY DEF IInv, TypeInv
<1>2. RolesInv'
  BY DEF IInv, RolesInv, RolesOf
<1>3. ObjectsInv'
  BY DEF IInv, ObjectsInv, LeftOf, Made
<1>4. ChildrenInv'
  BY OtherKeepsOK DEF ChildrenInv
<1>5. c \in DOMAIN children /\ DOMAIN children' = DOMAIN children /\ children[c].step # "ended"
  BY DEF Running
<1>6. \A d \in DOMAIN children : d # c => children'[d] = children[d] /\ (Running(d)' <=> Running(d))
  BY DEF Running
<1>7. ASSUME Own' PROVE Own /\ Pending' = Pending /\ want' = want
  BY <1>7 DEF Own, Pending
<1>8. OwnInv'
  <2> SUFFICES ASSUME Own', NEW d \in DOMAIN children, Running(d)'
               PROVE  d \in ToSet(processes)' /\ children'[d].want = want
    BY <1>5 DEF OwnInv
  <2>1. CASE d = c
    BY <1>5, <1>7, <2>1 DEF IInv, OwnInv, ChildGoesOn, Running
  <2>2. CASE d # c
    BY <1>6, <2>2, OtherChild
  <2> QED BY <2>1, <2>2
<1>9. ProgressInv'
  <2> SUFFICES ASSUME Own', NEW d \in DOMAIN children, Running(d)'
               PROVE  Progress(children[d])'
    BY <1>5 DEF ProgressInv
  <2>1. CASE d = c
    BY <2>1 DEF Running
  <2>2. CASE d # c
    BY <1>6, <2>2, OtherKeepsProgress
  <2> QED BY <2>1, <2>2
<1>10. SplitInv'
  <2>1. phase' = "fork" => IsInjective(jobs') /\ ToSet(jobs') \subseteq DOMAIN want'[at'].users
    BY DEF IInv, SplitInv
  <2> SUFFICES ASSUME Own'
               PROVE  /\ \A d \in DOMAIN children : Running(d)' =>
                           /\ IsInjective(children'[d].items)
                           /\ ToSet(children'[d].items) \cap Pending = {}
                           /\ \A e \in DOMAIN children : Running(e)' /\ e # d =>
                                ToSet(children'[d].items) \cap ToSet(children'[e].items) = {}
                      /\ \A u \in Registered(want) :
                           \/ u \in Pending \/ Reached(u)'
                           \/ \E d \in DOMAIN children : WorksFor(d, u)'
    BY <1>5, <1>7, <2>1 DEF SplitInv
  <2>2. ChildGoesOn(c) /\ \A u \in ToSet(children[c].items) \ ToSet(children'[c].items) : Reached(u)'
    OBVIOUS
  <2>3. \A d \in DOMAIN children : ToSet(children'[d].items) \subseteq ToSet(children[d].items)
    BY <1>6, <2>2 DEF ChildGoesOn
  <2>4. \A d \in DOMAIN children : Running(d)' => Running(d)
    BY <1>6
  <2>5. ASSUME NEW d \in DOMAIN children, Running(d)'
        PROVE  /\ IsInjective(children'[d].items)
               /\ ToSet(children'[d].items) \cap Pending = {}
               /\ \A e \in DOMAIN children : Running(e)' /\ e # d =>
                    ToSet(children'[d].items) \cap ToSet(children'[e].items) = {}
    BY <1>6, <1>7, <2>2, <2>3, <2>4, <2>5 DEF IInv, SplitInv, ChildGoesOn
  <2>6. ASSUME NEW u \in Registered(want), u \notin Pending, ~Reached(u)'
        PROVE  \E d \in DOMAIN children : WorksFor(d, u)'
    <3>1. CASE u \in ToSet(children[c].items)
      <4>1. u \in ToSet(children'[c].items)
        BY <2>2, <2>6, <3>1
      <4>2. children'[c].step # "ended"
        BY <2>2, <4>1 DEF ChildGoesOn, ToSet
      <4> QED BY <1>5, <4>1, <4>2 DEF WorksFor, Running
    <3>2. CASE u \notin ToSet(children[c].items)
      <4>1. PICK d \in DOMAIN children : WorksFor(d, u) \/ Reached(u)
        BY <1>5, <1>7, <2>6 DEF IInv, SplitInv
      <4>2. CASE WorksFor(d, u)
        <5>1. d # c
          BY <3>2, <4>2 DEF WorksFor
        <5> QED BY <1>6, <4>2, <5>1 DEF WorksFor, ToSet
      <4>3. CASE Reached(u)
        <5>1. u # TheUser(c) \/ children[c].items = <<>>
          <6>1. children[c] \in ChildRec
            BY <1>5 DEF IInv, TypeInv
          <6>2. children[c].items \in Seq(User)
            BY <6>1 DEF ChildRec
          <6>3. CASE children[c].items # <<>>
            <7>1. Head(children[c].items) \in ToSet(children[c].items)
              BY <6>2, <6>3, HeadAndTail
            <7> QED BY <7>1, <3>2 DEF TheUser
          <6> QED BY <6>3
        <5>2. SameUser(u) /\ want' = want
          BY <5>1
        <5>3. Reached(u)'
          BY <4>3, <5>2 DEF Reached, SameUser, Granted, Belongs
        <5> QED BY <5>3, <2>6
      <4> QED BY <4>1, <4>2, <4>3
    <3> QED BY <3>1, <3>2
  <2> QED BY <2>5, <2>6
<1> QED BY <1>1, <1>2, <1>3, <1>4, <1>8, <1>9, <1>10 DEF IInv


-----------------------------------------------------------------------------
(* The steps of a child.                                                   *)

\* One child is replaced.
LEMMA PutChild ==
  ASSUME NEW s \in Seq(ChildRec), NEW c \in DOMAIN s, NEW r \in ChildRec
  PROVE  /\ [s EXCEPT ![c] = r] \in Seq(ChildRec)
         /\ DOMAIN [s EXCEPT ![c] = r] = DOMAIN s
         /\ [s EXCEPT ![c] = r][c] = r
         /\ \A d \in DOMAIN s : d # c => [s EXCEPT ![c] = r][d] = s[d]
OBVIOUS

\* What is known of a running child c.
Known(c, k) ==
  /\ Running(c) /\ c \in DOMAIN children /\ children[c] = k /\ k \in ChildRec
  /\ k.step # "ended" /\ ChildOK(k) /\ k.items \in Seq(User) /\ k.want \in Wants
  /\ Own => /\ k.want = want /\ c \in ToSet(processes) /\ Progress(k)
            /\ IsInjective(k.items)

LEMMA KnownOf ==
  ASSUME IInv, NEW c, Running(c)
  PROVE  Known(c, children[c])
<1>1. c \in DOMAIN children /\ children[c].step # "ended"
  BY DEF Running
<1>2. children[c] \in ChildRec
  BY <1>1 DEF IInv, TypeInv
<1>3. children[c].items \in Seq(User)
  BY <1>2 DEF ChildRec
<1>4. ChildOK(children[c]) /\ children[c].want \in Wants
  BY <1>1 DEF IInv, ChildrenInv, ChildOK
<1>5. Own => /\ children[c].want = want /\ c \in ToSet(processes) /\ Progress(children[c])
             /\ IsInjective(children[c].items)
  BY <1>1 DEF IInv, OwnInv, ProgressInv, SplitInv
<1> QED BY <1>1, <1>2, <1>3, <1>4, <1>5 DEF Known

\* The user of a child that has one, and what it is to have.
LEMMA KnownUser ==
  ASSUME NEW c, NEW k, Known(c, k), k.step # "list" \/ k.items # <<>>
  PROVE  /\ k.items # <<>> /\ TheUser(c) = Head(k.items) /\ TheUser(c) \in User
         /\ TheUser(c) \in Registered(k.want)
         /\ Rec(c) = UserOf(k.want, TheUser(c))
         /\ Rec(c).grants \subseteq Scope \X Role /\ Rec(c).member_of \subseteq Group
         /\ \A g \in Rec(c).grants : g[2] \in k.knows
<1>1. k.items # <<>> /\ ToSet(k.items) \subseteq Registered(k.want) /\ k.items \in Seq(User)
  BY DEF Known, ChildOK
<1>2. Head(k.items) \in ToSet(k.items) /\ Head(k.items) \in User
  BY <1>1, HeadAndTail
<1>3. TheUser(c) = Head(k.items) /\ Rec(c) = UserOf(k.want, TheUser(c))
  BY DEF Known, TheUser, Rec
<1>4. TheUser(c) \in Registered(k.want) /\ k.want \in Wants
  BY <1>1, <1>2, <1>3 DEF Known
<1>5. Rec(c).grants \subseteq Scope \X Role /\ Rec(c).member_of \subseteq Group
  BY <1>3, <1>4, UserTyped
<1>6. \A g \in Rec(c).grants : g[2] \in k.knows
  BY <1>3, <1>4 DEF Known, ChildOK
<1> QED BY <1>1, <1>2, <1>3, <1>4, <1>5, <1>6

\* Nothing happens to a user when keystone stays as it is.
LEMMA SameServer ==
  ASSUME NEW u, UNCHANGED <<users, grants, members>>
  PROVE  SameUser(u)
BY DEF SameUser

\* A child ends: it has nothing more to do, or its sync loses it.
LEMMA ExitsKeeps ==
  ASSUME IInv, NEW c, Running(c), Exits(c), UNCHANGED <<server, OfTheSync>>,
         lost' \in BOOLEAN, lost => lost',
         children[c].items = <<>> \/ (c \in ToSet(processes) => lost')
  PROVE  IInv'
<1> DEFINE k == children[c]
           r == [items |-> <<>>, want |-> <<>>, knows |-> {}, step |-> "ended", new |-> FALSE,
                 had |-> {}, calls |-> {}, scope |-> None]
<1>1. Known(c, k)
  BY KnownOf
<1>2. r \in ChildRec
  BY DEF ChildRec
<1>3. children' = [children EXCEPT ![c] = r] /\ c \in DOMAIN children
  BY <1>1 DEF Exits, Known
<1> HIDE DEF r
<1>4. children \in Seq(ChildRec) /\ roles \subseteq Role
  BY DEF IInv, TypeInv
<1>5. /\ children' \in Seq(ChildRec) /\ DOMAIN children' = DOMAIN children
      /\ children'[c] = r
      /\ \A d \in DOMAIN children : d # c => children'[d] = children[d]
  BY <1>2, <1>3, <1>4, PutChild
<1>6. ChildStep(c)
  BY <1>4, <1>5, SameServer DEF ChildStep, server, OfTheSync
<1>7. ServerInv'
  BY DEF IInv, ServerInv, server
<1>8. children'[c].step = "ended" /\ children'[c].items = <<>>
  BY <1>5 DEF r
<1>9. ChildOK(children[c])'
  BY <1>8 DEF ChildOK
<1>10. ASSUME Own' PROVE k.items = <<>>
  BY <1>1, <1>10 DEF Own, OfTheSync, Known
<1>11. ToSet(<<>>) = {} /\ IsInjective(<<>>)
  BY DEF ToSet, IsInjective
<1>12. Own' => ChildGoesOn(c)
  BY <1>8, <1>10, <1>11 DEF ChildGoesOn
<1>13. Own' => \A u \in ToSet(children[c].items) \ ToSet(children'[c].items) : Reached(u)'
  BY <1>8, <1>10, <1>11
<1> QED BY <1>6, <1>7, <1>8, <1>9, <1>12, <1>13, ChildStepKeeps

LEMMA DiesKeeps ==
  ASSUME IInv, NEW c, Running(c), Dies(c), UNCHANGED <<server, OfTheSync>>
  PROVE  IInv'
BY ExitsKeeps DEF Dies, IInv, TypeInv


\* A child k becomes r and goes on with the same user.
LEMMA MoveKeeps ==
  ASSUME IInv, NEW c, NEW k, Known(c, k), k.items # <<>>,
         NEW r \in ChildRec, r.items = k.items, r.want = k.want, r.step # "ended",
         children' = [children EXCEPT ![c] = r],
         UNCHANGED <<objects, OfTheSync, lost>>,
         roles' \subseteq Role, DOMAIN users \subseteq DOMAIN users',
         \A u : u # TheUser(c) => SameUser(u),
         ServerInv',
         children'[c] = r => ChildOK(children[c])' /\ (Own' => Progress(children[c])')
  PROVE  IInv'
<1>1. children \in Seq(ChildRec) /\ c \in DOMAIN children /\ children[c] = k /\ Running(c)
  BY DEF IInv, TypeInv, Known
<1>2. /\ children' \in Seq(ChildRec) /\ DOMAIN children' = DOMAIN children
      /\ children'[c] = r
      /\ \A d \in DOMAIN children : d # c => children'[d] = children[d]
  BY <1>1, PutChild
<1>3. lost \in BOOLEAN
  BY DEF IInv, TypeInv
<1>4. ChildStep(c)
  BY <1>1, <1>2, <1>3 DEF ChildStep
<1>5. Own' => ChildGoesOn(c)
  <2> SUFFICES ASSUME Own' PROVE ChildGoesOn(c)
    OBVIOUS
  <2>1. IsInjective(k.items)
    BY DEF Own, OfTheSync, Known
  <2> QED BY <1>1, <1>2, <2>1 DEF ChildGoesOn
<1>6. ToSet(children[c].items) \ ToSet(children'[c].items) = {}
  BY <1>1, <1>2
<1> QED BY <1>2, <1>4, <1>5, <1>6, ChildStepKeeps

LEMMA ListUserKeeps ==
  ASSUME IInv, NEW c, Running(c), ListUser(c)
  PROVE  IInv'
<1> DEFINE k == children[c]
           r == [k EXCEPT !.step = "record", !.new = TheUser(c) \notin DOMAIN users]
<1>1. Known(c, k)
  BY KnownOf
<1>2. CASE k.items = <<>>
  <2>1. Exits(c) /\ UNCHANGED <<server, OfTheSync>> /\ lost' = lost
    BY <1>2 DEF ListUser
  <2>2. lost \in BOOLEAN
    BY DEF IInv, TypeInv
  <2> QED BY <1>2, <2>1, <2>2, ExitsKeeps
<1>3. CASE k.items # <<>>
  <2>1. /\ children' = [children EXCEPT ![c].step = "record", ![c].new = TheUser(c) \notin DOMAIN users]
        /\ k.step = "list" /\ UNCHANGED <<server, OfTheSync, lost>>
    BY <1>3 DEF ListUser
  <2>2. k \in ChildRec /\ c \in DOMAIN children
    BY <1>1 DEF Known
  <2>3. children' = [children EXCEPT ![c] = r]
    BY <2>1, <2>2
  <2>4. r \in ChildRec
    BY <2>2 DEF ChildRec
  <2>5. /\ r.items = k.items /\ r.want = k.want /\ r.step = "record" /\ r.calls = k.calls /\ r.knows = k.knows
        /\ r.new = (TheUser(c) \notin DOMAIN users)
    BY <2>2 DEF ChildRec
  <2> HIDE DEF r
  <2>6. TheUser(c) = Head(k.items)
    BY DEF TheUser
  <2>7. UNCHANGED <<objects, users, roles, grants, members>>
    BY <2>1 DEF server
  <2>8. children'[c] = r => ChildOK(children[c])'
    BY <1>1, <1>3, <2>1, <2>5, <2>7 DEF Known, ChildOK
  <2>9. children'[c] = r => Progress(children[c])'
    BY <2>5, <2>6, <2>7 DEF Progress
  <2>10. ServerInv' /\ roles' \subseteq Role
    BY <2>7 DEF IInv, ServerInv, TypeInv
  <2>11. (\A v : SameUser(v)) /\ DOMAIN users \subseteq DOMAIN users'
    BY <2>7 DEF SameUser
  <2>12. UNCHANGED <<objects, OfTheSync, lost>> /\ r.step # "ended"
    BY <2>1, <2>5, <2>7
  <2> QED BY <1>1, <1>3, <2>3, <2>4, <2>5, <2>8, <2>9, <2>10, <2>11, <2>12, MoveKeeps
<1> QED BY <1>2, <1>3

LEMMA RecordKeeps ==
  ASSUME IInv, NEW c, Running(c), Record(c)
  PROVE  IInv'
<1> DEFINE k == children[c]
           r == [k EXCEPT !.step = "read"]
           u == TheUser(c)
<1>1. Known(c, k) /\ k.step = "record"
  BY KnownOf DEF Record
<1>2. CASE k.new /\ u \in DOMAIN users
  BY <1>2, DiesKeeps DEF Record, server
<1>3. CASE ~(k.new /\ u \in DOMAIN users)
  <2>1. /\ users' = With(users, u, Rec(c).email) /\ Move(c, "read")
        /\ UNCHANGED <<objects, roles, grants, members, OfTheSync, lost>>
    BY <1>3 DEF Record
  <2>2. k \in ChildRec /\ c \in DOMAIN children
    BY <1>1 DEF Known
  <2>3. children' = [children EXCEPT ![c] = r]
    BY <2>1, <2>2 DEF Move
  <2>4. r \in ChildRec
    BY <2>2 DEF ChildRec
  <2>5. /\ r.items = k.items /\ r.want = k.want /\ r.step = "read" /\ r.calls = k.calls /\ r.knows = k.knows
        /\ r.new = k.new
    BY <2>2 DEF ChildRec
  <2> HIDE DEF r
  <2>6. k.items # <<>> /\ u = Head(k.items) /\ Rec(c) = UserOf(k.want, u)
    BY <1>1, KnownUser
  <2>7. /\ DOMAIN users' = DOMAIN users \cup {u} /\ users'[u] = Rec(c).email
        /\ \A v \in DOMAIN users : v # u => users'[v] = users[v]
    BY <2>1 DEF With
  <2> HIDE DEF u
  <2>8. children'[c] = r => ChildOK(children[c])'
    BY <1>1, <2>5, <2>6, <2>7 DEF Known, ChildOK
  <2>9. ASSUME children'[c] = r, Own' PROVE Progress(children[c])'
    <3>1. Own /\ want' = want /\ k.want = want /\ Progress(k)
      BY <1>1, <2>1, <2>9 DEF Own, OfTheSync, Known
    <3>2. k.new => u \notin DOMAIN users
      BY <1>1, <2>6, <3>1 DEF Progress
    <3>3. k.new => (\A g \in Scope \X Role : ~Granted(u, g)) /\ (\A g \in Group : ~Belongs(u, g))
      BY <3>2 DEF IInv, ServerInv, Granted, Belongs
    <3> QED BY <2>1, <2>5, <2>6, <2>7, <2>9, <3>1, <3>3 DEF Progress, Granted, Belongs
  <2>10. ServerInv' /\ roles' \subseteq Role
    BY <2>1, <2>7 DEF IInv, ServerInv, TypeInv
  <2>11. \A v : v # u => SameUser(v)
    BY <2>1, <2>7 DEF SameUser
  <2> QED BY <1>1, <2>1, <2>3, <2>4, <2>5, <2>6, <2>7, <2>8, <2>9, <2>10, <2>11, MoveKeeps DEF u
<1> QED BY <1>2, <1>3


LEMMA ReadKeeps ==
  ASSUME IInv, NEW c, Running(c), Read(c)
  PROVE  IInv'
<1> DEFINE k == children[c]
           u == TheUser(c)
           had == {g \in Scope \X Role : ~k.new /\ <<u, g[1], g[2]>> \in grants}
           member_of == {g \in Group : ~k.new /\ <<u, g>> \in members}
           target == Rec(c).member_of
           calls == Difference("remove", "add", member_of, target)
           r == [k EXCEPT !.step = "members", !.had = had, !.calls = calls]
<1>1. Known(c, k) /\ k.step = "read" /\ UNCHANGED <<server, OfTheSync>>
  BY KnownOf DEF Read
<1>2. CASE ~(target \subseteq ObjectsOf(k.want))
  BY <1>1, <1>2, DiesKeeps DEF Read
<1>3. CASE target \subseteq ObjectsOf(k.want)
  <2>1. /\ children' = [children EXCEPT ![c].step = "members", ![c].had = had, ![c].calls = calls]
        /\ UNCHANGED lost
    BY <1>3 DEF Read
  <2>2. k \in ChildRec /\ c \in DOMAIN children
    BY <1>1 DEF Known
  <2>3. children' = [children EXCEPT ![c] = r]
    BY <2>1, <2>2
  <2>4. k.items # <<>> /\ u = Head(k.items) /\ Rec(c) = UserOf(k.want, u) /\ target \subseteq Group
    BY <1>1, KnownUser
  <2>5. calls = ({"remove"} \X (member_of \ target)) \cup ({"add"} \X (target \ member_of))
    BY DEF Difference
  <2>6. member_of \subseteq Group /\ had \subseteq Scope \X Role
    OBVIOUS
  <2>7. calls \subseteq ({"remove"} \X (Group \ target)) \cup ({"add"} \X target)
    BY <2>5, <2>6
  <2>8. \A g \in Scope \X Role : g \in had <=> ~k.new /\ Granted(u, g)
    BY DEF Granted
  <2>9. \A g \in Group : g \in member_of <=> ~k.new /\ Belongs(u, g)
    BY DEF Belongs
  <2> HIDE DEF calls, had, member_of
  <2>10. calls \subseteq Calls
    BY <2>7, <2>4 DEF Calls
  <2>11. r \in ChildRec
    BY <2>2, <2>6, <2>10 DEF ChildRec
  <2>12. /\ r.items = k.items /\ r.want = k.want /\ r.step = "members" /\ r.knows = k.knows
         /\ r.calls = calls /\ r.had = had
    BY <2>2 DEF ChildRec
  <2> HIDE DEF r, u
  <2>13. UNCHANGED <<objects, users, roles, grants, members>>
    BY <1>1 DEF server
  <2>14. u \in DOMAIN users
    BY <1>1, <2>4 DEF Known, ChildOK
  <2>15. children'[c] = r => ChildOK(children[c])'
    BY <1>1, <2>4, <2>7, <2>12, <2>13, <2>14 DEF Known, ChildOK
  <2>16. ASSUME children'[c] = r, Own' PROVE Progress(children[c])'
    <3>1. Own /\ want' = want /\ k.want = want /\ Progress(k)
      BY <1>1, <2>1, <2>16 DEF Own, OfTheSync, Known
    <3>2. /\ users[u] = Rec(c).email
          /\ k.new => (\A g \in Scope \X Role : ~Granted(u, g)) /\ (\A g \in Group : ~Belongs(u, g))
      BY <1>1, <2>4, <3>1 DEF Progress
    <3>3. \A g \in Scope \X Role : Granted(u, g) <=> g \in had
      BY <3>2, <2>8
    <3>4. \A g \in Group : Belongs(u, g) <=> g \in member_of
      BY <3>2, <2>9
    <3>5. \A g \in target : Belongs(u, g) \/ <<"add", g>> \in calls
      BY <2>4, <2>5, <3>4
    <3>6. \A g \in Group \ target : Belongs(u, g) => <<"remove", g>> \in calls
      BY <2>5, <3>4
    <3> HIDE DEF k, target
    <3> QED BY <2>4, <2>12, <2>13, <2>16, <3>1, <3>2, <3>3, <3>5, <3>6 DEF Progress, Granted, Belongs, target
  <2>17. ServerInv' /\ roles' \subseteq Role
    BY <2>13 DEF IInv, ServerInv, TypeInv
  <2>18. (\A v : SameUser(v)) /\ DOMAIN users \subseteq DOMAIN users'
    BY <2>13 DEF SameUser
  <2>19. UNCHANGED <<objects, OfTheSync, lost>> /\ r.step # "ended"
    BY <1>1, <2>1, <2>12, <2>13
  <2> QED BY <1>1, <2>3, <2>4, <2>11, <2>12, <2>15, <2>16, <2>17, <2>18, <2>19, MoveKeeps
<1> QED BY <1>2, <1>3

LEMMA ChangeMemberKeeps ==
  ASSUME IInv, NEW c, Running(c), ChangeMember(c)
  PROVE  IInv'
<1> DEFINE k == children[c]
           u == TheUser(c)
           target == Rec(c).member_of
<1>1. Known(c, k) /\ k.step = "members"
  BY KnownOf DEF ChangeMember
<1>2. PICK call \in k.calls :
        /\ members' = IF call[1] = "add" THEN members \cup {<<u, call[2]>>} ELSE members \ {<<u, call[2]>>}
        /\ children' = [children EXCEPT ![c].calls = @ \ {call}]
  BY DEF ChangeMember
<1>3. UNCHANGED <<objects, users, roles, grants, OfTheSync, fails, lost>>
  BY DEF ChangeMember
<1> DEFINE left == k.calls \ {call}
           r == [k EXCEPT !.calls = left]
<1>4. k \in ChildRec /\ c \in DOMAIN children
  BY <1>1 DEF Known
<1>5. children' = [children EXCEPT ![c] = r]
  BY <1>2, <1>4
<1>6. k.items # <<>> /\ u = Head(k.items) /\ Rec(c) = UserOf(k.want, u) /\ target \subseteq Group
  BY <1>1, KnownUser
<1>7. k.calls \subseteq ({"remove"} \X (Group \ target)) \cup ({"add"} \X target)
  BY <1>1, <1>6 DEF Known, ChildOK
<1>8. k.calls \subseteq Calls
  BY <1>4 DEF ChildRec
<1>9. r \in ChildRec
  BY <1>4, <1>8 DEF ChildRec
<1>10. /\ r.items = k.items /\ r.want = k.want /\ r.step = "members" /\ r.knows = k.knows
       /\ r.calls = left /\ r.had = k.had
  BY <1>1, <1>4 DEF ChildRec
<1>11. u \in DOMAIN users
  BY <1>1, <1>6 DEF Known, ChildOK
<1> HIDE DEF r, u
<1>12. children'[c] = r => ChildOK(children[c])'
  BY <1>1, <1>3, <1>6, <1>7, <1>10, <1>11 DEF Known, ChildOK
<1>13. \/ call[1] = "add" /\ call[2] \in target /\ call = <<"add", call[2]>>
       \/ call[1] = "remove" /\ call[2] \in Group \ target /\ call = <<"remove", call[2]>>
  BY <1>2, <1>7
<1>14. \A v : v # u => \A g : <<v, g>> \in members' <=> <<v, g>> \in members
  BY <1>2
<1>15. ASSUME children'[c] = r, Own' PROVE Progress(children[c])'
  <2>1. Own /\ want' = want /\ k.want = want /\ Progress(k)
    BY <1>1, <1>3, <1>15 DEF Own, OfTheSync, Known
  <2>2. /\ users[u] = Rec(c).email
        /\ \A g \in Scope \X Role : Granted(u, g) <=> g \in k.had
        /\ \A g \in target : Belongs(u, g) \/ <<"add", g>> \in k.calls
        /\ \A g \in Group \ target : Belongs(u, g) => <<"remove", g>> \in k.calls
    BY <1>1, <1>6, <2>1 DEF Progress
  <2>3. ASSUME NEW g \in target PROVE <<u, g>> \in members' \/ <<"add", g>> \in left
    <3>1. <<u, g>> \in members \/ <<"add", g>> \in k.calls
      BY <2>2 DEF Belongs
    <3>2. CASE call[1] = "add"
      <4>1. members' = members \cup {<<u, call[2]>>} /\ call = <<"add", call[2]>>
        BY <1>2, <1>13, <3>2
      <4> QED BY <3>1, <4>1
    <3>3. CASE call[1] = "remove"
      <4>1. members' = members \ {<<u, call[2]>>} /\ call[2] \notin target /\ <<"add", g>> # call
        BY <1>2, <1>13, <3>3
      <4> QED BY <3>1, <4>1
    <3> QED BY <1>13, <3>2, <3>3
  <2>4. \A g \in Group \ target : <<u, g>> \in members' => <<"remove", g>> \in left
    BY <1>2, <1>13, <2>2 DEF Belongs
  <2> HIDE DEF k, target, left
  <2> QED BY <1>3, <1>6, <1>10, <1>15, <2>1, <2>2, <2>3, <2>4 DEF Progress, Granted, Belongs, target
<1>16. ServerInv'
  BY <1>2, <1>3, <1>11 DEF IInv, ServerInv
<1>17. roles' \subseteq Role /\ DOMAIN users \subseteq DOMAIN users'
  BY <1>3 DEF IInv, TypeInv
<1>18. \A v : v # u => SameUser(v)
  BY <1>3, <1>14 DEF SameUser
<1>19. UNCHANGED <<objects, OfTheSync, lost>> /\ r.step # "ended"
  BY <1>3, <1>10
<1> QED BY <1>1, <1>5, <1>6, <1>9, <1>10, <1>12, <1>15, <1>16, <1>17, <1>18, <1>19, MoveKeeps DEF u


\* A child knows the roles it looks up: it makes none.
LEMMA LookUpMakesNone ==
  ASSUME IInv, NEW c, Running(c), LookUp(c)
  PROVE  /\ roles' = roles
         /\ {g[2] : g \in Rec(c).grants} \ children[c].knows = {}
<1>1. Known(c, children[c]) /\ children[c].step = "members"
  BY KnownOf DEF LookUp
<1>2. \A g \in Rec(c).grants : g[2] \in children[c].knows
  BY <1>1, KnownUser
<1> DEFINE unknown == {g[2] : g \in Rec(c).grants} \ children[c].knows
<1>3. unknown = {}
  BY <1>2
<1>4. roles' = roles \cup unknown \/ roles' = roles
  BY DEF LookUp
<1> HIDE DEF unknown
<1>5. roles' = roles
  BY <1>3, <1>4
<1> QED BY <1>3, <1>5 DEF unknown

LEMMA LookUpKeeps ==
  ASSUME IInv, NEW c, Running(c), LookUp(c)
  PROVE  IInv'
<1> DEFINE k == children[c]
           u == TheUser(c)
           target == Rec(c).grants
           unknown == {g[2] : g \in target} \ k.knows
           calls == Difference("revoke", "grant", k.had, target)
           r == [k EXCEPT !.step = "grants", !.knows = @ \cup unknown, !.calls = calls]
           Alright == unknown \cap roles = {} /\ {g[1] : g \in target} \subseteq ObjectsOf(k.want)
<1>1. /\ Known(c, k) /\ k.step = "members" /\ k.calls = {}
      /\ UNCHANGED <<objects, users, grants, members, OfTheSync, fails>>
  BY KnownOf DEF LookUp
<1>2. roles' = roles /\ unknown = {}
  BY LookUpMakesNone
<1>3. CASE ~Alright
  <2>1. Dies(c) /\ UNCHANGED <<server, OfTheSync>>
    BY <1>1, <1>2, <1>3 DEF LookUp, server
  <2> QED BY <2>1, DiesKeeps
<1>4. CASE Alright
  <2>1. /\ children' = [children EXCEPT ![c].step = "grants", ![c].knows = @ \cup unknown, ![c].calls = calls]
        /\ UNCHANGED lost
    BY <1>4 DEF LookUp
  <2>2. k \in ChildRec /\ c \in DOMAIN children
    BY <1>1 DEF Known
  <2>3. children' = [children EXCEPT ![c] = r]
    BY <2>1, <2>2
  <2>4. /\ k.items # <<>> /\ u = Head(k.items) /\ Rec(c) = UserOf(k.want, u)
        /\ target \subseteq Scope \X Role /\ Rec(c).member_of \subseteq Group
    BY <1>1, KnownUser
  <2>5. calls = ({"revoke"} \X (k.had \ target)) \cup ({"grant"} \X (target \ k.had))
    BY DEF Difference
  <2>6. k.had \subseteq Scope \X Role
    BY <2>2 DEF ChildRec
  <2>7. calls \subseteq ({"revoke"} \X ((Scope \X Role) \ target)) \cup ({"grant"} \X target)
    BY <2>5, <2>6
  <2>8. k.knows \cup unknown = k.knows
    BY <1>2
  <2> HIDE DEF calls, unknown
  <2>9. calls \subseteq Calls
    BY <2>7, <2>4 DEF Calls
  <2>10. r \in ChildRec
    BY <2>2, <2>8, <2>9 DEF ChildRec
  <2>11. /\ r.items = k.items /\ r.want = k.want /\ r.step = "grants" /\ r.knows = k.knows
         /\ r.calls = calls
    BY <2>2, <2>8 DEF ChildRec
  <2> HIDE DEF r, u
  <2>12. UNCHANGED <<objects, users, roles, grants, members>>
    BY <1>1, <1>2
  <2>13. u \in DOMAIN users
    BY <1>1, <2>4 DEF Known, ChildOK
  <2>14. children'[c] = r => ChildOK(children[c])'
    BY <1>1, <2>4, <2>7, <2>11, <2>12, <2>13 DEF Known, ChildOK
  <2>15. ASSUME children'[c] = r, Own' PROVE Progress(children[c])'
    <3>1. Own /\ want' = want /\ k.want = want /\ Progress(k)
      BY <1>1, <2>1, <2>15 DEF Own, OfTheSync, Known
    <3>2. /\ users[u] = Rec(c).email
          /\ \A g \in Scope \X Role : Granted(u, g) <=> g \in k.had
          /\ \A g \in Rec(c).member_of : Belongs(u, g)
          /\ \A g \in Group \ Rec(c).member_of : ~Belongs(u, g)
      BY <1>1, <2>4, <3>1 DEF Progress
    <3>3. \A g \in target : Granted(u, g) \/ <<"grant", g>> \in calls
      BY <2>4, <2>5, <3>2
    <3>4. \A g \in (Scope \X Role) \ target : Granted(u, g) => <<"revoke", g>> \in calls
      BY <2>5, <3>2
    <3>5. \A g \in Group : Belongs(u, g) <=> g \in Rec(c).member_of
      BY <3>2
    <3> HIDE DEF k, target
    <3> QED BY <2>4, <2>11, <2>12, <2>15, <3>1, <3>2, <3>3, <3>4, <3>5 DEF Progress, Granted, Belongs, target
  <2>16. ServerInv' /\ roles' \subseteq Role
    BY <2>12 DEF IInv, ServerInv, TypeInv
  <2>17. (\A v : SameUser(v)) /\ DOMAIN users \subseteq DOMAIN users'
    BY <2>12 DEF SameUser
  <2>18. UNCHANGED <<objects, OfTheSync, lost>> /\ r.step # "ended"
    BY <1>1, <2>1, <2>11, <2>12
  <2> QED BY <1>1, <2>3, <2>4, <2>10, <2>11, <2>14, <2>15, <2>16, <2>17, <2>18, MoveKeeps
<1> QED BY <1>3, <1>4

\* What ChangeGrant of c does for one of its calls.
LEMMA ChangeGrantIs ==
  ASSUME NEW c, ChangeGrant(c)
  PROVE  \E call \in children[c].calls : \E scope :
           /\ scope \in {None, call[2][1]}
           /\ grants' = IF call[1] = "grant" THEN grants \cup {<<TheUser(c), call[2][1], call[2][2]>>}
                                             ELSE grants \ {<<TheUser(c), call[2][1], call[2][2]>>}
           /\ children' = [children EXCEPT ![c].calls = children[c].calls \ {call}, ![c].scope = scope]
BY DEF ChangeGrant

LEMMA ChangeGrantKeeps ==
  ASSUME IInv, NEW c, Running(c), ChangeGrant(c)
  PROVE  IInv'
<1> DEFINE k == children[c]
           u == TheUser(c)
           target == Rec(c).grants
<1>1. Known(c, k) /\ k.step = "grants"
  BY KnownOf DEF ChangeGrant
<1>2a. PICK call \in k.calls : \E scope :
        /\ scope \in {None, call[2][1]}
        /\ grants' = IF call[1] = "grant" THEN grants \cup {<<u, call[2][1], call[2][2]>>}
                                          ELSE grants \ {<<u, call[2][1], call[2][2]>>}
        /\ children' = [children EXCEPT ![c].calls = k.calls \ {call}, ![c].scope = scope]
  BY ChangeGrantIs
<1>2. PICK scope :
        /\ scope \in {None, call[2][1]}
        /\ grants' = IF call[1] = "grant" THEN grants \cup {<<u, call[2][1], call[2][2]>>}
                                          ELSE grants \ {<<u, call[2][1], call[2][2]>>}
        /\ children' = [children EXCEPT ![c].calls = k.calls \ {call}, ![c].scope = scope]
  BY <1>2a
<1>3. UNCHANGED <<objects, users, roles, members, OfTheSync, fails, lost>>
  BY DEF ChangeGrant
<1> DEFINE left == k.calls \ {call}
           r == [k EXCEPT !.calls = left, !.scope = scope]
<1>4. k \in ChildRec /\ c \in DOMAIN children
  BY <1>1 DEF Known
<1>5. children' = [children EXCEPT ![c] = r]
  BY <1>2, <1>4
<1>6. k.items # <<>> /\ u = Head(k.items) /\ Rec(c) = UserOf(k.want, u) /\ target \subseteq Scope \X Role
  BY <1>1, KnownUser
<1>7. k.calls \subseteq ({"revoke"} \X ((Scope \X Role) \ target)) \cup ({"grant"} \X target)
  BY <1>1, <1>6 DEF Known, ChildOK
<1>8. k.calls \subseteq Calls
  BY <1>4 DEF ChildRec
<1>9. \/ call[1] = "grant" /\ call[2] \in target /\ call = <<"grant", call[2]>>
      \/ call[1] = "revoke" /\ call[2] \in (Scope \X Role) \ target /\ call = <<"revoke", call[2]>>
  BY <1>2, <1>7
<1>10. call[2] \in Scope \X Role /\ call[2][1] \in Scope /\ call[2] = <<call[2][1], call[2][2]>>
  BY <1>6, <1>9
<1>11. r \in ChildRec
  BY <1>2, <1>4, <1>8, <1>10 DEF ChildRec
<1>12. /\ r.items = k.items /\ r.want = k.want /\ r.step = "grants" /\ r.knows = k.knows
       /\ r.calls = left
  BY <1>1, <1>4 DEF ChildRec
<1>13. u \in DOMAIN users
  BY <1>1, <1>6 DEF Known, ChildOK
<1> HIDE DEF r, u
<1>14. children'[c] = r => ChildOK(children[c])'
  BY <1>1, <1>3, <1>6, <1>7, <1>12, <1>13 DEF Known, ChildOK
<1>15. \A v : v # u => \A g : <<v, g[1], g[2]>> \in grants' <=> <<v, g[1], g[2]>> \in grants
  BY <1>2
<1>16. \A g \in Scope \X Role : g # call[2] => <<u, g[1], g[2]>> # <<u, call[2][1], call[2][2]>>
  BY <1>10
<1>17. ASSUME children'[c] = r, Own' PROVE Progress(children[c])'
  <2>1. Own /\ want' = want /\ k.want = want /\ Progress(k)
    BY <1>1, <1>3, <1>17 DEF Own, OfTheSync, Known
  <2>2. /\ users[u] = Rec(c).email
        /\ \A g \in Group : Belongs(u, g) <=> g \in Rec(c).member_of
        /\ \A g \in target : Granted(u, g) \/ <<"grant", g>> \in k.calls
        /\ \A g \in (Scope \X Role) \ target : Granted(u, g) => <<"revoke", g>> \in k.calls
    BY <1>1, <1>6, <2>1 DEF Progress
  <2>3. ASSUME NEW g \in target PROVE <<u, g[1], g[2]>> \in grants' \/ <<"grant", g>> \in left
    <3>1. (<<u, g[1], g[2]>> \in grants \/ <<"grant", g>> \in k.calls) /\ g \in Scope \X Role
      BY <1>6, <2>2 DEF Granted
    <3>2. CASE call[1] = "grant"
      <4>1. grants' = grants \cup {<<u, call[2][1], call[2][2]>>} /\ call = <<"grant", call[2]>>
        BY <1>2, <1>9, <3>2
      <4>2. CASE g = call[2]
        BY <4>1, <4>2
      <4>3. CASE g # call[2]
        BY <3>1, <4>1, <4>3
      <4> QED BY <4>2, <4>3
    <3>3. CASE call[1] = "revoke"
      <4>1. /\ grants' = grants \ {<<u, call[2][1], call[2][2]>>} /\ call[2] \notin target
            /\ <<"grant", g>> # call
        BY <1>2, <1>9, <3>3
      <4> QED BY <1>16, <3>1, <4>1
    <3> QED BY <1>9, <3>2, <3>3
  <2>4. ASSUME NEW g \in (Scope \X Role) \ target, <<u, g[1], g[2]>> \in grants'
        PROVE  <<"revoke", g>> \in left
    <3>1. CASE call[1] = "grant"
      <4>1. grants' = grants \cup {<<u, call[2][1], call[2][2]>>} /\ call[2] \in target /\ <<"revoke", g>> # call
        BY <1>2, <1>9, <3>1
      <4>2. <<u, g[1], g[2]>> \in grants
        BY <1>16, <2>4, <4>1
      <4> QED BY <2>2, <4>1, <4>2 DEF Granted
    <3>2. CASE call[1] = "revoke"
      <4>1. grants' = grants \ {<<u, call[2][1], call[2][2]>>} /\ call = <<"revoke", call[2]>>
        BY <1>2, <1>9, <3>2
      <4>2. <<u, g[1], g[2]>> \in grants /\ g # call[2]
        BY <2>4, <4>1
      <4> QED BY <2>2, <4>1, <4>2 DEF Granted
    <3> QED BY <1>9, <3>1, <3>2
  <2> HIDE DEF k, target, left
  <2> QED BY <1>3, <1>6, <1>12, <1>17, <2>1, <2>2, <2>3, <2>4 DEF Progress, Granted, Belongs, target
<1>18. ServerInv'
  BY <1>2, <1>3, <1>13 DEF IInv, ServerInv
<1>19. roles' \subseteq Role /\ DOMAIN users \subseteq DOMAIN users'
  BY <1>3 DEF IInv, TypeInv
<1>20. \A v : v # u => SameUser(v)
  BY <1>3, <1>15 DEF SameUser
<1>21. UNCHANGED <<objects, OfTheSync, lost>> /\ r.step # "ended"
  BY <1>3, <1>12
<1> QED BY <1>1, <1>5, <1>6, <1>11, <1>12, <1>14, <1>17, <1>18, <1>19, <1>20, <1>21, MoveKeeps DEF u


LEMMA NextUserKeeps ==
  ASSUME IInv, NEW c, Running(c), NextUser(c)
  PROVE  IInv'
<1> DEFINE k == children[c]
           u == TheUser(c)
           r == [k EXCEPT !.items = Tail(k.items), !.step = "list", !.had = {}, !.new = FALSE]
<1>1. /\ Known(c, k) /\ k.step = "grants" /\ k.calls = {}
      /\ children' = [children EXCEPT ![c].items = Tail(@), ![c].step = "list", ![c].had = {}, ![c].new = FALSE]
      /\ UNCHANGED <<server, OfTheSync, fails, lost>>
  BY KnownOf DEF NextUser
<1>2. k \in ChildRec /\ c \in DOMAIN children /\ k.items \in Seq(User)
  BY <1>1 DEF Known
<1>3. children' = [children EXCEPT ![c] = r]
  BY <1>1, <1>2
<1>4. /\ k.items # <<>> /\ u = Head(k.items) /\ Rec(c) = UserOf(k.want, u)
      /\ Rec(c).grants \subseteq Scope \X Role /\ Rec(c).member_of \subseteq Group
  BY <1>1, KnownUser
<1>5. /\ Tail(k.items) \in Seq(User) /\ ToSet(Tail(k.items)) \subseteq ToSet(k.items)
      /\ \A x \in ToSet(k.items) : x = u \/ x \in ToSet(Tail(k.items))
      /\ IsInjective(k.items) => IsInjective(Tail(k.items))
  BY <1>2, <1>4, HeadAndTail
<1>6. r \in ChildRec
  BY <1>2, <1>5 DEF ChildRec
<1>7. /\ r.items = Tail(k.items) /\ r.want = k.want /\ r.step = "list" /\ r.knows = k.knows
      /\ r.calls = {}
  BY <1>1, <1>2 DEF ChildRec
<1> HIDE DEF r, u
<1>8. children \in Seq(ChildRec) /\ roles \subseteq Role /\ lost \in BOOLEAN
  BY DEF IInv, TypeInv
<1>9. /\ children' \in Seq(ChildRec) /\ DOMAIN children' = DOMAIN children
      /\ children'[c] = r
      /\ \A d \in DOMAIN children : d # c => children'[d] = children[d]
  BY <1>2, <1>3, <1>6, <1>8, PutChild
<1>10. UNCHANGED <<objects, users, roles, grants, members>>
  BY <1>1 DEF server
<1>11. ChildStep(c)
  BY <1>1, <1>8, <1>9, <1>10, SameServer DEF ChildStep
<1>12. ServerInv'
  BY <1>10 DEF IInv, ServerInv
<1>13. ChildOK(children[c])'
  BY <1>1, <1>5, <1>7, <1>9 DEF ChildOK, Known
<1>14. Progress(children[c])'
  BY <1>7, <1>9 DEF Progress
<1>15. ASSUME Own' PROVE ChildGoesOn(c) /\ \A v : v = u => Reached(v)'
  <2>1. Own /\ want' = want /\ k.want = want /\ Progress(k) /\ IsInjective(k.items)
    BY <1>1, <1>15 DEF Own, OfTheSync, Known
  <2>2. ChildGoesOn(c)
    BY <1>5, <1>7, <1>9, <2>1 DEF ChildGoesOn
  <2>3. u \in DOMAIN users
    BY <1>1, <1>4 DEF Known, ChildOK
  <2>4. /\ users[u] = Rec(c).email
        /\ \A g \in Group : Belongs(u, g) <=> g \in Rec(c).member_of
        /\ \A g \in Rec(c).grants : Granted(u, g)
        /\ \A g \in (Scope \X Role) \ Rec(c).grants : ~Granted(u, g)
    BY <1>1, <1>4, <2>1 DEF Progress
  <2>5. \A g \in Scope \X Role : Granted(u, g) <=> g \in Rec(c).grants
    BY <2>4
  <2> HIDE DEF k
  <2>6. ASSUME NEW v, v = u PROVE Reached(v)'
    BY <1>4, <1>10, <2>1, <2>3, <2>4, <2>5, <2>6 DEF Reached, Granted, Belongs
  <2> QED BY <2>2, <2>6
<1>16. \A v \in ToSet(children[c].items) \ ToSet(children'[c].items) : v = u
  BY <1>5, <1>7, <1>9
<1>17. Own' => \A v \in ToSet(children[c].items) \ ToSet(children'[c].items) : Reached(v)'
  BY <1>15, <1>16
<1> QED BY <1>11, <1>12, <1>13, <1>14, <1>15, <1>17, ChildStepKeeps

\* Steps of a child, and its failing.
LEMMA ChildKeeps ==
  ASSUME IInv, NEW c, Running(c), Child(c)
  PROVE  IInv'
BY ListUserKeeps, RecordKeeps, ReadKeeps, ChangeMemberKeeps, LookUpKeeps, ChangeGrantKeeps, NextUserKeeps
   DEF Child

LEMMA ChildFailsKeeps ==
  ASSUME IInv, NEW c, ChildFails(c)
  PROVE  IInv'
BY DiesKeeps DEF ChildFails


-----------------------------------------------------------------------------
(* The steps of the sync itself.                                           *)

\* A step that leaves the users and the children alone, and no user behind.
LEMMA QuietStep ==
  ASSUME IInv, UNCHANGED <<users, grants, members, want, children>>,
         Own' => /\ Own /\ Pending' = Pending
                 /\ \A c \in DOMAIN children : Running(c) /\ c \in ToSet(processes) => c \in ToSet(processes'),
         phase' = "fork" => IsInjective(jobs') /\ ToSet(jobs') \subseteq DOMAIN want[at'].users
  PROVE  ServerInv' /\ ChildrenInv' /\ OwnInv' /\ SplitInv' /\ ProgressInv'
<1>1. ServerInv'
  BY DEF IInv, ServerInv
<1>2. ChildrenInv'
  BY DEF IInv, ChildrenInv, ChildOK
<1>3. \A c : Running(c)' <=> Running(c)
  BY DEF Running
<1>4. OwnInv'
  BY <1>3 DEF IInv, OwnInv
<1>5. \A u : (Reached(u)' <=> Reached(u)) /\ \A c : WorksFor(c, u)' <=> WorksFor(c, u)
  BY <1>3 DEF Reached, Granted, Belongs, WorksFor
<1>6. SplitInv'
  BY <1>3, <1>5 DEF IInv, SplitInv
<1>7. \A c : Progress(children[c])' <=> Progress(children[c])
  BY DEF Progress, Granted, Belongs
<1>8. ProgressInv'
  BY <1>3, <1>7 DEF IInv, ProgressInv
<1> QED BY <1>1, <1>2, <1>4, <1>6, <1>8

LEMMA MakeObjectKeeps == ASSUME IInv, MakeObject PROVE IInv'
<1>1. /\ phase = "make" /\ part \in {"domain", "projects", "groups"}
      /\ UNCHANGED <<users, roles, grants, members, phase, want, at, part, role_to_id, jobs, processes, children, bounds, lost>>
  BY DEF MakeObject
<1>2. PICK o \in todo : objects' = With(objects, o, DescOf(want[at], o)) /\ todo' = todo \ {o}
  BY DEF MakeObject
<1>3. TypeInv'
  BY <1>1 DEF IInv, TypeInv
<1>4. RolesInv'
  BY <1>1 DEF IInv, RolesInv, RolesOf
<1>5. want \in Wants /\ at \in DOMAIN want
  BY <1>1 DEF IInv, TypeInv
<1>6. todo \subseteq ObjectsIn(want[at])
  BY <1>1 DEF IInv, ObjectsInv
<1>7. /\ DOMAIN objects' = DOMAIN objects \cup {o} /\ objects'[o] = DescOf(want[at], o)
      /\ \A x \in DOMAIN objects : x # o => objects'[x] = objects[x]
  BY <1>2 DEF With
<1>8. ASSUME NEW i \in DOMAIN want, NEW x \in ObjectsIn(want[i]), i < at \/ (i = at /\ x \notin LeftOf(want[at])')
      PROVE  Made(want[i], x)'
  <2>1. CASE x = o
    <3>1. i = at
      BY <1>5, <1>6, <2>1, WantsAssumption
    <3> QED BY <1>1, <1>7, <2>1, <3>1 DEF Made, DescOf
  <2>2. CASE x # o
    <3>1. i < at \/ (i = at /\ x \notin LeftOf(want[at]))
      BY <1>1, <1>2, <1>8, <2>2 DEF LeftOf
    <3>2. Made(want[i], x)
      BY <1>1, <3>1 DEF IInv, ObjectsInv
    <3> QED BY <1>1, <1>7, <2>2, <3>2 DEF Made, DescOf
  <2> QED BY <2>1, <2>2
<1>9. ObjectsInv'
  BY <1>1, <1>2, <1>6, <1>8 DEF ObjectsInv
<1>10. Own' => Own /\ Pending' = Pending
  BY <1>1 DEF Own, Pending
<1>11. ServerInv' /\ ChildrenInv' /\ OwnInv' /\ SplitInv' /\ ProgressInv'
  BY <1>1, <1>10, QuietStep
<1> QED BY <1>3, <1>4, <1>9, <1>11 DEF IInv

LEMMA LeaveKeeps ==
  ASSUME IInv, NEW how, how = "raised" \/ (how = "returned" /\ phase = "wait" /\ processes = <<>>),
         Active, Leave(how), UNCHANGED <<server, want, children, lost>>
  PROVE  IInv'
<1>1. want \in Wants
  BY DEF IInv, TypeInv, Active
<1>2. TypeInv'
  <2>1. ToSet(<<>>) = {}
    BY DEF ToSet
  <2> QED BY <1>1, <2>1 DEF IInv, TypeInv, Leave, server
<1>3. RolesInv'
  BY DEF RolesInv, Leave
<1>4. ObjectsInv'
  BY DEF IInv, ObjectsInv, Leave, Made, server
<1>5. Own' => Own /\ Pending' = Pending /\ UNCHANGED processes
  BY DEF Own, Pending, Leave
<1>6. ServerInv' /\ ChildrenInv' /\ OwnInv' /\ SplitInv' /\ ProgressInv'
  BY <1>5, QuietStep DEF Leave, server
<1> QED BY <1>2, <1>3, <1>4, <1>6 DEF IInv

LEMMA NextPartKeeps == ASSUME IInv, NextPart PROVE IInv'
<1>1. /\ phase = "make" /\ todo = {}
      /\ UNCHANGED <<server, phase, want, role_to_id, jobs, processes, children, bounds, lost>>
  BY DEF NextPart
<1>2. want \in Wants /\ at \in DOMAIN want /\ DOMAIN want = 1 .. Len(want) /\ Len(want) \in Nat
  BY <1>1, WantFacts DEF IInv, TypeInv
<1>3. Own' => Own /\ Pending' = Pending
  BY <1>1 DEF Own, Pending
<1>4. ServerInv' /\ ChildrenInv' /\ OwnInv' /\ SplitInv' /\ ProgressInv'
  BY <1>1, <1>3, QuietStep DEF server
<1>5. TypeInv'
  <2>1. part' \in {"domain", "projects", "groups", "roles"} /\ at' \in DOMAIN want
    BY <1>2 DEF NextPart
  <2> QED BY <1>1, <2>1 DEF IInv, TypeInv, server
<1> DEFINE d == want[at]
<1>6. \/ part = "domain" /\ part' = "projects" /\ todo' = DOMAIN d.projects /\ at' = at
      \/ part = "projects" /\ part' = "groups" /\ todo' = DOMAIN d.groups /\ at' = at
      \/ part = "groups" /\ part' = "roles" /\ todo' = RolesOf(d) \ role_to_id /\ at' = at
      \/ part = "roles" /\ part' = "domain" /\ at' = at + 1 /\ at < Len(want) /\ todo' = {want[at + 1].domain}
  BY DEF NextPart
<1>7. RolesInv'
  <2>1. CASE at' = at
    <3>1. RolesOf(d) \subseteq Role /\ (RolesOf(d))' = RolesOf(d)
      BY <1>1, <1>2, <2>1, RolesOfDomain DEF RolesOf
    <3>2. \A i \in DOMAIN want : i < at => RolesOf(want[i]) \subseteq role_to_id
      BY <1>1 DEF IInv, RolesInv
    <3>3. part' = "roles" => todo' = RolesOf(d) \ role_to_id
      BY <1>2, <1>6, <2>1
    <3> QED BY <1>1, <2>1, <3>1, <3>2, <3>3 DEF RolesInv, RolesOf
  <2>2. CASE at' = at + 1
    <3>1. part = "roles" /\ part' = "domain"
      BY <1>2, <1>6, <2>2
    <3>2. RolesOf(want[at]) \subseteq role_to_id
      BY <1>1, <3>1 DEF IInv, RolesInv
    <3>3. \A i \in DOMAIN want : i < at + 1 => i = at \/ i < at
      BY <1>2
    <3> QED BY <1>1, <2>2, <3>1, <3>2, <3>3 DEF IInv, RolesInv, RolesOf
  <2> QED BY <1>6, <2>1, <2>2
<1>8. /\ \A i \in DOMAIN want : \A o \in ObjectsIn(want[i]) :
           i < at \/ (i = at /\ o \notin LeftOf(d)) => Made(want[i], o)
      /\ \A i, o : Made(want[i], o)' <=> Made(want[i], o)
  BY <1>1 DEF IInv, ObjectsInv, Made, DescOf, server
<1>9. CASE at' = at
  <2>a. d' = d
    BY <1>1, <1>9
  <2>1. LeftOf(d)' = LeftOf(d) /\ (part' # "roles" => todo' \subseteq ObjectsIn(d))
    <3> HIDE DEF d
    <3>1. CASE part = "domain"
      BY <1>1, <1>6, <2>a, <3>1 DEF LeftOf, ObjectsIn
    <3>2. CASE part = "projects"
      BY <1>1, <1>6, <2>a, <3>2 DEF LeftOf, ObjectsIn
    <3>3. CASE part = "groups"
      BY <1>1, <1>6, <2>a, <3>3 DEF LeftOf, ObjectsIn
    <3> QED BY <1>2, <1>6, <1>9, <3>1, <3>2, <3>3
  <2> QED BY <1>1, <1>4, <1>5, <1>7, <1>8, <1>9, <2>1 DEF ObjectsInv, IInv
<1>10. CASE at' = at + 1
  <2>1. part = "roles" /\ part' = "domain" /\ todo' = {want[at + 1].domain}
    BY <1>2, <1>6, <1>10
  <2>2. \A i \in DOMAIN want : i < at + 1 => i = at \/ i < at
    BY <1>2
  <2>3. LeftOf(d) = {}
    BY <2>1 DEF LeftOf
  <2>4. \A o \in ObjectsIn(want[at']) : o \in LeftOf(want[at])'
    BY <1>1, <1>10, <2>1 DEF LeftOf, ObjectsIn
  <2>5. \A i \in DOMAIN want : i < at' => \A o \in ObjectsIn(want[i]) : Made(want[i], o)
    BY <1>8, <1>10, <2>2, <2>3
  <2>6. todo' \subseteq ObjectsIn(want[at'])
    BY <1>10, <2>1 DEF ObjectsIn
  <2>7. ObjectsInv'
    BY <1>1, <1>8, <2>4, <2>5, <2>6 DEF ObjectsInv
  <2> QED BY <1>4, <1>5, <1>7, <2>7 DEF IInv
<1> QED BY <1>6, <1>9, <1>10


LEMMA CreateRoleKeeps == ASSUME IInv, CreateRole PROVE IInv'
<1>1. /\ phase = "make" /\ part = "roles"
      /\ UNCHANGED <<objects, users, grants, members, phase, want, at, part, jobs, processes, children, bounds, lost>>
  BY DEF CreateRole
<1>2. PICK r \in todo : role_to_id' = role_to_id \cup {r} /\ todo' = todo \ {r} /\ roles' = roles \cup {r}
  BY DEF CreateRole
<1>3. Own' => Own /\ Pending' = Pending
  BY <1>1 DEF Own, Pending
<1>4. ServerInv' /\ ChildrenInv' /\ OwnInv' /\ SplitInv' /\ ProgressInv'
  BY <1>1, <1>3, QuietStep
<1>5. RolesInv'
  BY <1>1, <1>2 DEF IInv, RolesInv, RolesOf
<1>6. ObjectsInv'
  BY <1>1 DEF IInv, ObjectsInv, LeftOf, Made, DescOf
<1>7. r \in Role
  BY <1>1 DEF IInv, RolesInv
<1>8. TypeInv'
  BY <1>1, <1>2, <1>7 DEF IInv, TypeInv
<1> QED BY <1>4, <1>5, <1>6, <1>8 DEF IInv

LEMMA BeginForkKeeps == ASSUME IInv, BeginFork PROVE IInv'
<1>1. /\ phase = "make" /\ part = "roles" /\ todo = {} /\ at = Len(want)
      /\ phase' = "fork" /\ at' = 1 /\ jobs' = InOrder(DOMAIN want[1].users)
      /\ UNCHANGED <<server, want, part, todo, role_to_id, processes, children, bounds, lost>>
  BY DEF BeginFork
<1>2. want \in Wants /\ 1 \in DOMAIN want /\ DOMAIN want = 1 .. Len(want) /\ Len(want) \in Nat
  BY <1>1, WantFacts DEF IInv, TypeInv
<1>3. \A i \in DOMAIN want : (i < at \/ i = at) /\ (i = 1 \/ i > 1)
  BY <1>1, <1>2
<1> DEFINE first == DOMAIN want[1].users
<1>4. jobs' \in Seq(first) /\ IsInjective(jobs') /\ ToSet(jobs') = first
  BY <1>1, <1>2, UsersOfDomain, InOrderIs
<1>5. first \subseteq User
  BY <1>2, UsersOfDomain
<1>6. jobs' \in Seq(User)
  BY <1>4, <1>5
<1>7. Pending' = Pending
  <2>1. Pending = Registered(want)
    BY <1>1 DEF Pending
  <2>2. Pending' = ToSet(jobs') \cup UNION {DOMAIN want[i].users : i \in {j \in DOMAIN want : j > 1}}
    BY <1>1 DEF Pending
  <2>3. \A u : u \in Registered(want) <=> u \in first \/ \E i \in DOMAIN want : i > 1 /\ u \in DOMAIN want[i].users
    BY <1>2, <1>3, RegisteredIs
  <2> QED BY <1>4, <2>1, <2>2, <2>3
<1>8. Own' => Own
  BY <1>1 DEF Own
<1>9. ServerInv' /\ ChildrenInv' /\ OwnInv' /\ SplitInv' /\ ProgressInv'
  BY <1>1, <1>4, <1>7, <1>8, QuietStep DEF server
<1>10. RolesInv'
  BY <1>1, <1>3 DEF IInv, RolesInv, RolesOf
<1>11. ObjectsInv'
  <2>1. LeftOf(want[at]) = {}
    BY <1>1 DEF LeftOf
  <2>2. \A i \in DOMAIN want : \A o \in ObjectsIn(want[i]) : Made(want[i], o)
    BY <1>1, <1>3, <2>1 DEF IInv, ObjectsInv
  <2> QED BY <1>1, <2>2 DEF ObjectsInv, Made, DescOf, server
<1>12. TypeInv'
  BY <1>1, <1>2, <1>6 DEF IInv, TypeInv, server
<1> QED BY <1>9, <1>10, <1>11, <1>12 DEF IInv

LEMMA NextDomainKeeps == ASSUME IInv, NextDomain PROVE IInv'
<1>1. /\ phase = "fork" /\ jobs = <<>>
      /\ UNCHANGED <<server, want, part, todo, role_to_id, processes, children, bounds, lost>>
  BY DEF NextDomain
<1>2. want \in Wants /\ at \in DOMAIN want /\ DOMAIN want = 1 .. Len(want) /\ Len(want) \in Nat
  BY <1>1, WantFacts DEF IInv, TypeInv
<1>3. ToSet(jobs) = {}
  BY <1>1 DEF ToSet
<1>4. \A i \in DOMAIN want : RolesOf(want[i]) \subseteq role_to_id /\ \A o \in ObjectsIn(want[i]) : Made(want[i], o)
  BY <1>1 DEF IInv, RolesInv, ObjectsInv
<1>5. phase' \in {"fork", "wait"} /\ (Own' => Own)
  BY <1>1 DEF NextDomain, Own
<1>6. RolesInv' /\ ObjectsInv'
  BY <1>1, <1>4, <1>5 DEF RolesInv, ObjectsInv, RolesOf, Made, DescOf, server
<1>7. CASE at < Len(want)
  <2> DEFINE next == DOMAIN want[at + 1].users
  <2>1. phase' = "fork" /\ at' = at + 1 /\ jobs' = InOrder(next) /\ at + 1 \in DOMAIN want
    BY <1>1, <1>2, <1>7 DEF NextDomain
  <2>2. jobs' \in Seq(next) /\ IsInjective(jobs') /\ ToSet(jobs') = next
    BY <1>2, <2>1, UsersOfDomain, InOrderIs
  <2>3. next \subseteq User
    BY <1>2, <2>1, UsersOfDomain
  <2>4. jobs' \in Seq(User)
    BY <2>2, <2>3
  <2>5. Pending' = Pending
    <3>1. Pending = UNION {DOMAIN want[i].users : i \in {j \in DOMAIN want : j > at}}
      BY <1>1, <1>3 DEF Pending
    <3>2. Pending' = next \cup UNION {DOMAIN want[i].users : i \in {j \in DOMAIN want : j > at + 1}}
      BY <1>1, <2>1, <2>2 DEF Pending
    <3>3. \A i \in DOMAIN want : i > at <=> i = at + 1 \/ i > at + 1
      BY <1>2
    <3> QED BY <2>1, <3>1, <3>2, <3>3
  <2>6. ServerInv' /\ ChildrenInv' /\ OwnInv' /\ SplitInv' /\ ProgressInv'
    BY <1>1, <1>5, <2>1, <2>2, <2>5, QuietStep DEF server
  <2>7. TypeInv'
    BY <1>1, <1>2, <2>1, <2>4 DEF IInv, TypeInv, server
  <2> QED BY <1>6, <2>6, <2>7 DEF IInv
<1>8. CASE ~(at < Len(want))
  <2>1. phase' = "wait" /\ UNCHANGED <<at, jobs>>
    BY <1>8 DEF NextDomain
  <2>2. \A i \in DOMAIN want : ~(i > at)
    BY <1>2, <1>8
  <2>3. Pending' = Pending
    BY <1>1, <1>3, <2>1, <2>2 DEF Pending
  <2>4. ServerInv' /\ ChildrenInv' /\ OwnInv' /\ SplitInv' /\ ProgressInv'
    BY <1>1, <1>5, <2>1, <2>3, QuietStep DEF server
  <2>5. TypeInv'
    BY <1>1, <1>2, <2>1 DEF IInv, TypeInv, server
  <2> QED BY <1>6, <2>4, <2>5 DEF IInv
<1> QED BY <1>7, <1>8

LEMMA WaitPidKeeps == ASSUME IInv, WaitPid PROVE IInv'
<1>1. /\ phase \in {"fork", "wait"} /\ children[Head(processes)].step = "ended" /\ processes' = Tail(processes)
      /\ UNCHANGED <<server, phase, want, at, part, todo, role_to_id, jobs, children, bounds, lost>>
  BY DEF WaitPid
<1>2. processes \in Seq(Nat) /\ ToSet(processes) \subseteq DOMAIN children
  BY DEF IInv, TypeInv
<1>3. processes # <<>>
  BY <1>2, WindowAssumption DEF WaitPid
<1>4. /\ Tail(processes) \in Seq(Nat) /\ ToSet(Tail(processes)) \subseteq ToSet(processes)
      /\ \A c \in ToSet(processes) : c = Head(processes) \/ c \in ToSet(Tail(processes))
  BY <1>2, <1>3, HeadAndTail
<1>5. \A c \in DOMAIN children : Running(c) /\ c \in ToSet(processes) => c \in ToSet(processes')
  BY <1>1, <1>4 DEF Running
<1>6. Own' => Own /\ Pending' = Pending
  BY <1>1 DEF Own, Pending
<1>7. ServerInv' /\ ChildrenInv' /\ OwnInv' /\ SplitInv' /\ ProgressInv'
  BY <1>1, <1>5, <1>6, QuietStep DEF server, IInv, SplitInv
<1>8. RolesInv' /\ ObjectsInv'
  BY <1>1 DEF IInv, RolesInv, ObjectsInv, RolesOf, LeftOf, Made, DescOf, server
<1>9. TypeInv'
  BY <1>1, <1>2, <1>4 DEF IInv, TypeInv, server
<1> QED BY <1>7, <1>8, <1>9 DEF IInv


\* One more at the end.
LEMMA AppendOne ==
  ASSUME NEW S, NEW s \in Seq(S), NEW r \in S
  PROVE  /\ Append(s, r) \in Seq(S)
         /\ Len(s) + 1 \notin DOMAIN s
         /\ DOMAIN Append(s, r) = DOMAIN s \cup {Len(s) + 1}
         /\ Append(s, r)[Len(s) + 1] = r
         /\ \A d \in DOMAIN s : Append(s, r)[d] = s[d]
         /\ ToSet(Append(s, r)) = ToSet(s) \cup {r}
<1> DEFINE t == Append(s, r)
           n == Len(s)
<1>1. /\ n \in Nat /\ DOMAIN s = 1 .. n /\ t \in Seq(S) /\ DOMAIN t = 1 .. (n + 1)
      /\ t[n + 1] = r /\ \A d \in 1 .. n : t[d] = s[d]
  OBVIOUS
<1> HIDE DEF t, n
<1>2. DOMAIN t = DOMAIN s \cup {n + 1} /\ n + 1 \notin DOMAIN s
  BY <1>1
<1>3. ToSet(t) = ToSet(s) \cup {r}
  BY <1>1, <1>2 DEF ToSet
<1> QED BY <1>1, <1>2, <1>3 DEF t, n

LEMMA ForkKeeps == ASSUME IInv, Fork PROVE IInv'
<1> DEFINE k == IF Len(jobs) < Batch THEN 0 ELSE Len(jobs) - Batch
           items == SubSeq(jobs, k + 1, Len(jobs))
           left == SubSeq(jobs, 1, k)
           r == NewChild(items)
<1>a. PICK c : c = Len(children) + 1
  OBVIOUS
<1>1. /\ phase = "fork" /\ jobs # <<>>
      /\ children' = Append(children, r) /\ processes' = Append(processes, c) /\ jobs' = left
      /\ UNCHANGED <<server, phase, want, at, part, todo, role_to_id, bounds, lost>>
  BY <1>a DEF Fork
<1>2. /\ jobs \in Seq(User) /\ children \in Seq(ChildRec) /\ processes \in Seq(Nat)
      /\ ToSet(processes) \subseteq DOMAIN children /\ role_to_id \subseteq Role
      /\ want \in Wants /\ at \in DOMAIN want
  BY <1>1 DEF IInv, TypeInv
<1>3. IsInjective(jobs) /\ ToSet(jobs) \subseteq DOMAIN want[at].users
  BY <1>1 DEF IInv, SplitInv
<1>4. k \in 0 .. Len(jobs)
  BY <1>2, WindowAssumption
<1> HIDE DEF k
<1>5. /\ left \in Seq(User) /\ items \in Seq(User) /\ IsInjective(left) /\ IsInjective(items)
      /\ ToSet(left) \subseteq ToSet(jobs) /\ ToSet(items) \subseteq ToSet(jobs)
      /\ ToSet(left) \cap ToSet(items) = {}
      /\ \A u \in ToSet(jobs) : u \in ToSet(left) \/ u \in ToSet(items)
  BY <1>2, <1>3, <1>4, CutInTwo
<1> HIDE DEF items, left
<1>6. r \in ChildRec
  BY <1>2, <1>5 DEF NewChild, ChildRec
<1>7. r.items = items /\ r.want = want /\ r.knows = role_to_id /\ r.step = "list" /\ r.calls = {}
  BY DEF NewChild
<1> HIDE DEF r
<1>8. /\ children' \in Seq(ChildRec) /\ c \notin DOMAIN children
      /\ DOMAIN children' = DOMAIN children \cup {c} /\ children'[c] = r
      /\ \A d \in DOMAIN children : children'[d] = children[d]
  BY <1>a, <1>1, <1>2, <1>6, AppendOne
<1>9. c \in Nat
  BY <1>a, <1>2
<1>10. processes' \in Seq(Nat) /\ ToSet(processes') = ToSet(processes) \cup {c}
  BY <1>1, <1>2, <1>9, AppendOne
<1>11. TypeInv'
  BY <1>1, <1>2, <1>5, <1>8, <1>10 DEF IInv, TypeInv, server
<1>12. ServerInv' /\ RolesInv' /\ ObjectsInv'
  BY <1>1 DEF IInv, ServerInv, RolesInv, ObjectsInv, RolesOf, LeftOf, Made, DescOf, server
<1>13. ToSet(items) \subseteq DOMAIN want[at].users /\ ToSet(items) \subseteq Registered(want)
  BY <1>2, <1>3, <1>5, UsersOfDomain
<1>14. ASSUME NEW u \in Registered(want), NEW g \in UserOf(want, u).grants
       PROVE  g[2] \in role_to_id
  <2>1. PICK i \in DOMAIN want : u \in DOMAIN want[i].users
    BY RegisteredIs
  <2>2. UserOf(want, u) = want[i].users[u]
    BY <1>2, <2>1, UserOfIs
  <2>3. RolesOf(want[i]) \subseteq role_to_id
    BY <1>1 DEF IInv, RolesInv
  <2> QED BY <2>1, <2>2, <2>3 DEF RolesOf
<1>15. ChildOK(children[c])'
  BY <1>2, <1>7, <1>8, <1>13, <1>14 DEF ChildOK
<1>16. ChildrenInv'
  <2> SUFFICES ASSUME NEW d \in DOMAIN children PROVE ChildOK(children[d])'
    BY <1>8, <1>15 DEF ChildrenInv
  <2>1. ChildOK(children[d]) /\ children'[d] = children[d] /\ users' = users
    BY <1>1, <1>8 DEF IInv, ChildrenInv, server
  <2> QED BY <2>1 DEF ChildOK
<1>17. (Own' <=> Own) /\ want' = want /\ \A d \in DOMAIN children : Running(d)' <=> Running(d)
  BY <1>1, <1>8 DEF Own, Running
<1>18. OwnInv'
  BY <1>7, <1>8, <1>10, <1>17 DEF IInv, OwnInv
<1>19. ProgressInv'
  <2> SUFFICES ASSUME Own', NEW d \in DOMAIN children', Running(d)' PROVE Progress(children[d])'
    BY DEF ProgressInv
  <2>1. CASE d = c
    BY <1>7, <1>8, <2>1 DEF Progress
  <2>2. CASE d # c
    <3>1. d \in DOMAIN children /\ children'[d] = children[d] /\ Progress(children[d])
      BY <1>8, <1>17, <2>2 DEF IInv, ProgressInv
    <3> QED BY <1>1, <3>1 DEF Progress, Granted, Belongs, server
  <2> QED BY <2>1, <2>2
<1> DEFINE later == UNION {DOMAIN want[i].users : i \in {j \in DOMAIN want : j > at}}
<1>20. Pending = ToSet(jobs) \cup later /\ Pending' = ToSet(left) \cup later
  BY <1>1 DEF Pending
<1>21. ToSet(items) \cap later = {}
  <2> SUFFICES ASSUME NEW i \in DOMAIN want, i > at, NEW u \in ToSet(items), u \in DOMAIN want[i].users
               PROVE  FALSE
    OBVIOUS
  <2>1. i # at
    BY <1>2, WantFacts
  <2> QED BY <1>2, <1>13, <2>1, WantsAssumption
<1> HIDE DEF later
<1>22. Pending' \subseteq Pending /\ ToSet(items) \subseteq Pending /\ ToSet(items) \cap Pending' = {}
       /\ \A u \in Pending : u \in Pending' \/ u \in ToSet(items)
  BY <1>5, <1>20, <1>21
<1>23. SplitInv'
  <2>1. IsInjective(jobs') /\ ToSet(jobs') \subseteq DOMAIN want'[at'].users
    BY <1>1, <1>3, <1>5
  <2> SUFFICES ASSUME Own'
               PROVE  /\ \A d \in DOMAIN children' : Running(d)' =>
                           /\ IsInjective(children'[d].items)
                           /\ ToSet(children'[d].items) \cap Pending' = {}
                           /\ \A e \in DOMAIN children' : Running(e)' /\ e # d =>
                                ToSet(children'[d].items) \cap ToSet(children'[e].items) = {}
                      /\ \A u \in Registered(want) :
                           \/ u \in Pending' \/ Reached(u)'
                           \/ \E d \in DOMAIN children' : WorksFor(d, u)'
    BY <1>1, <2>1 DEF SplitInv
  <2>2. /\ \A d \in DOMAIN children : Running(d) =>
             /\ IsInjective(children[d].items)
             /\ ToSet(children[d].items) \cap Pending = {}
             /\ \A e \in DOMAIN children : Running(e) /\ e # d =>
                  ToSet(children[d].items) \cap ToSet(children[e].items) = {}
        /\ \A u \in Registered(want) :
             u \in Pending \/ (\E d \in DOMAIN children : WorksFor(d, u)) \/ Reached(u)
    BY <1>17 DEF IInv, SplitInv
  <2>3. \A d \in DOMAIN children : children'[d].items = children[d].items
    BY <1>8
  <2>4. children'[c].items = items
    BY <1>7, <1>8
  <2>5. ASSUME NEW d \in DOMAIN children', Running(d)'
        PROVE  /\ IsInjective(children'[d].items)
               /\ ToSet(children'[d].items) \cap Pending' = {}
               /\ \A e \in DOMAIN children' : Running(e)' /\ e # d =>
                    ToSet(children'[d].items) \cap ToSet(children'[e].items) = {}
    <3>1. \A e \in DOMAIN children' : e = c \/ (e \in DOMAIN children /\ (Running(e)' => Running(e)))
      BY <1>8, <1>17
    <3>2. CASE d = c
      BY <1>5, <1>22, <2>2, <2>3, <2>4, <3>1, <3>2
    <3>3. CASE d # c
      BY <1>8, <1>17, <1>22, <2>2, <2>3, <2>4, <2>5, <3>1, <3>3
    <3> QED BY <3>2, <3>3
  <2>6. ASSUME NEW u \in Registered(want)
        PROVE  \/ u \in Pending' \/ Reached(u)'
               \/ \E d \in DOMAIN children' : WorksFor(d, u)'
    <3>1. CASE u \in Pending
      <4>1. u \in ToSet(items) => WorksFor(c, u)'
        BY <1>7, <1>8 DEF WorksFor, Running
      <4> QED BY <1>8, <1>22, <3>1, <4>1
    <3>2. CASE \E d \in DOMAIN children : WorksFor(d, u)
      BY <1>8, <1>17, <3>2 DEF WorksFor
    <3>3. CASE Reached(u)
      BY <1>1, <3>3 DEF Reached, Granted, Belongs, server
    <3> QED BY <2>2, <3>1, <3>2, <3>3
  <2> QED BY <2>5, <2>6
<1> QED BY <1>11, <1>12, <1>16, <1>18, <1>19, <1>23 DEF IInv

LEMMA BeginKeeps == ASSUME IInv, Begin PROVE IInv'
<1>1. /\ want' \in Wants
      /\ phase' = "make" /\ at' = 1 /\ part' = "domain" /\ todo' = {want'[1].domain}
      /\ role_to_id' = roles /\ jobs' = <<>> /\ processes' = <<>>
      /\ lost' = \E c \in DOMAIN children : Running(c)
      /\ UNCHANGED <<server, children>>
  BY DEF Begin
<1>2. 1 \in DOMAIN want' /\ DOMAIN want' = 1 .. Len(want') /\ Len(want') \in Nat
  BY <1>1, WantFacts
<1>3. TypeInv'
  <2>1. ToSet(<<>>) = {}
    BY DEF ToSet
  <2> QED BY <1>1, <1>2, <2>1 DEF IInv, TypeInv, server
<1>4. ServerInv' /\ ChildrenInv'
  BY <1>1 DEF IInv, ServerInv, ChildrenInv, ChildOK, server
<1>5. \A i \in DOMAIN want' : ~(i < at')
  BY <1>1, <1>2
<1>6. RolesInv'
  BY <1>1, <1>5 DEF RolesInv
<1>7. LeftOf(want[at])' = ObjectsIn(want'[1])
  BY <1>1 DEF LeftOf, ObjectsIn
<1>8. todo' \subseteq ObjectsIn(want'[1])
  BY <1>1 DEF ObjectsIn
<1>9. ObjectsInv'
  BY <1>1, <1>5, <1>7, <1>8 DEF ObjectsInv
<1>10. Own' => \A c : ~Running(c)'
  BY <1>1 DEF Own, Running
<1>11. Pending' = Registered(want')
  BY <1>1 DEF Pending
<1>12. OwnInv' /\ ProgressInv'
  BY <1>10 DEF OwnInv, ProgressInv
<1>13. SplitInv'
  BY <1>1, <1>10, <1>11 DEF SplitInv
<1> QED BY <1>3, <1>4, <1>6, <1>9, <1>12, <1>13 DEF IInv


-----------------------------------------------------------------------------
(* The theorems.                                                           *)

LEMMA InitIInv == Init => IInv
<1> SUFFICES ASSUME Init PROVE IInv
  OBVIOUS
<1>1. PICK s \in Servers : /\ objects = s.objects /\ users = s.users /\ roles = s.roles
                           /\ grants = s.grants /\ members = s.members
  BY DEF Init
<1>2. /\ phase = "idle" /\ want = <<>> /\ part = "domain" /\ role_to_id = {}
      /\ jobs = <<>> /\ processes = <<>> /\ children = <<>> /\ lost = FALSE
  BY DEF Init
<1>3. DOMAIN children = {} /\ ToSet(<<>>) = {}
  BY <1>2 DEF ToSet
<1>4. TypeInv
  <2>1. jobs \in Seq(User) /\ children \in Seq(ChildRec) /\ processes \in Seq(Nat)
    BY <1>2
  <2>2. roles \subseteq Role /\ ToSet(processes) = {}
    BY <1>1, <1>2, <1>3, ServersAssumption
  <2> QED BY <1>2, <2>1, <2>2 DEF TypeInv
<1>5. ServerInv
  BY <1>1, ServersAssumption DEF ServerInv
<1>6. ~Own
  BY <1>2 DEF Own
<1>7. RolesInv /\ ObjectsInv
  BY <1>2 DEF RolesInv, ObjectsInv
<1>8. ChildrenInv
  BY <1>3 DEF ChildrenInv
<1>9. OwnInv /\ SplitInv /\ ProgressInv
  BY <1>2, <1>6 DEF OwnInv, SplitInv, ProgressInv
<1> QED BY <1>4, <1>5, <1>7, <1>8, <1>9 DEF IInv

LEMMA NextIInv == ASSUME IInv, [Next]_vars PROVE IInv'
<1>1. CASE UNCHANGED vars
  <2>1. UNCHANGED <<objects, users, roles, grants, members, phase, want, at, part, todo, role_to_id,
                    jobs, processes, children, lost>>
    BY <1>1 DEF vars, server
  <2>2. Own' => Own /\ Pending' = Pending
    BY <2>1 DEF Own, Pending
  <2>3. ServerInv' /\ ChildrenInv' /\ OwnInv' /\ SplitInv' /\ ProgressInv'
    BY <2>1, <2>2, QuietStep DEF IInv, SplitInv
  <2>4. TypeInv' /\ RolesInv' /\ ObjectsInv'
    BY <2>1 DEF IInv, TypeInv, RolesInv, ObjectsInv, RolesOf, LeftOf, Made, DescOf
  <2> QED BY <2>3, <2>4 DEF IInv
<1>2. CASE Begin
  BY <1>2, BeginKeeps
<1>3. CASE UnboundLocal
  BY <1>3, LeaveKeeps DEF UnboundLocal, Active
<1>4. CASE Return
  BY <1>4, LeaveKeeps DEF Return, Active
<1>5. CASE Raise
  BY <1>5, LeaveKeeps DEF Raise
<1>6. CASE MakeObject \/ NextPart \/ CreateRole \/ BeginFork \/ Fork \/ NextDomain \/ WaitPid
  BY <1>6, MakeObjectKeeps, NextPartKeeps, CreateRoleKeeps, BeginForkKeeps, ForkKeeps, NextDomainKeeps,
     WaitPidKeeps
<1>7. CASE Children
  BY <1>7, ChildKeeps DEF Children
<1>8. CASE \E c \in DOMAIN children : ChildFails(c)
  BY <1>8, ChildFailsKeeps
<1> QED BY <1>1, <1>2, <1>3, <1>4, <1>5, <1>6, <1>7, <1>8 DEF Next, Sync, Failing

\* IInv holds in every state: what a child still has to change and what its
\* user has come to what is registered, and no user is forgotten or given to
\* two children (user_dom_sync).
THEOREM Inductive == Spec => []IInv
<1>1. IInv /\ [Next]_vars => IInv'
  BY NextIInv
<1> QED BY InitIInv, <1>1, PTL DEF Spec

\* What is registered is what keystone has when an undisturbed sync returns,
\* however many users, domains and children there are and in whatever order
\* the children's calls reach keystone.
THEOREM SyncMakesItSo == Spec => []SyncReaches
<1>1. ASSUME IInv PROVE SyncReaches
  <2> SUFFICES ASSUME phase = "returned", ~lost, NEW i \in DOMAIN want
               PROVE  /\ \A o \in ObjectsIn(want[i]) : Made(want[i], o)
                      /\ \A u \in DOMAIN want[i].users :
                           /\ u \in DOMAIN users /\ users[u] = want[i].users[u].email
                           /\ GrantsOf(u) = want[i].users[u].grants
                           /\ GroupsOf(u) = want[i].users[u].member_of
    BY DEF SyncReaches, Made
  <2>1. \A o \in ObjectsIn(want[i]) : Made(want[i], o)
    BY <1>1 DEF IInv, ObjectsInv
  <2>2. want \in Wants /\ processes = <<>> /\ Own /\ Pending = {}
    BY <1>1 DEF IInv, TypeInv, Own, Pending
  <2>3. \A c \in DOMAIN children : ~Running(c)
    BY <1>1, <2>2 DEF IInv, OwnInv, ToSet
  <2>4. \A u \in Registered(want) : Reached(u)
    BY <1>1, <2>2, <2>3 DEF IInv, SplitInv, WorksFor
  <2>5. ASSUME NEW u \in DOMAIN want[i].users
        PROVE  /\ u \in DOMAIN users /\ users[u] = want[i].users[u].email
               /\ GrantsOf(u) = want[i].users[u].grants
               /\ GroupsOf(u) = want[i].users[u].member_of
    <3> DEFINE w == want[i].users[u]
    <3>1. u \in Registered(want) /\ UserOf(want, u) = w
      BY <2>2, RegisteredIs, UserOfIs
    <3>2. w.grants \subseteq Scope \X Role /\ w.member_of \subseteq Group
      BY <2>2, <3>1, UserTyped
    <3>3. /\ u \in DOMAIN users /\ users[u] = w.email
          /\ \A g \in Scope \X Role : Granted(u, g) <=> g \in w.grants
          /\ \A g \in Group : Belongs(u, g) <=> g \in w.member_of
      BY <2>4, <3>1 DEF Reached
    <3> HIDE DEF w
    <3>4. GrantsOf(u) = w.grants
      BY <3>2, <3>3 DEF GrantsOf, Granted
    <3>5. GroupsOf(u) = w.member_of
      BY <3>2, <3>3 DEF GroupsOf, Belongs
    <3> QED BY <3>3, <3>4, <3>5 DEF w
  <2> QED BY <2>1, <2>5
<1> QED BY <1>1, Inductive, PTL

\* get_role_id of a child finds every role: the children of a sync, and of all
\* syncs before it, never make one.
THEOREM RolesMadeOnce == Spec => RolesBeforeChildren
<1>1. ASSUME IInv, [Next]_vars, roles' # roles PROVE phase = "make"
  <2>1. CASE Children
    <3>1. PICK c \in DOMAIN children : Running(c) /\ Child(c)
      BY <2>1 DEF Children
    <3>2. CASE LookUp(c)
      BY <1>1, <3>1, <3>2, LookUpMakesNone
    <3>3. CASE ListUser(c) \/ Record(c) \/ Read(c) \/ ChangeMember(c) \/ ChangeGrant(c) \/ NextUser(c)
      BY <1>1, <3>3 DEF ListUser, Record, Read, ChangeMember, ChangeGrant, NextUser, server
    <3> QED BY <3>1, <3>2, <3>3 DEF Child
  <2>2. CASE CreateRole
    BY <2>2 DEF CreateRole
  <2>3. CASE UNCHANGED vars
    BY <1>1, <2>3 DEF vars, server
  <2>4. CASE Begin \/ MakeObject \/ NextPart \/ UnboundLocal \/ BeginFork \/ Fork \/ NextDomain \/ WaitPid \/ Return
    BY <1>1, <2>4 DEF Begin, MakeObject, NextPart, UnboundLocal, BeginFork, Fork, NextDomain, WaitPid, Return, server
  <2>5. CASE Failing
    BY <1>1, <2>5 DEF Failing, Raise, ChildFails, server
  <2> QED BY <1>1, <2>1, <2>2, <2>3, <2>4, <2>5 DEF Next, Sync
<1>2. IInv /\ [Next]_vars => [roles' # roles => phase = "make"]_vars
  BY <1>1
<1> QED BY <1>2, Inductive, PTL DEF Spec, RolesBeforeChildren

\* What a child takes away from its user it was not asked to give.
LEMMA TakesNoneWanted ==
  ASSUME IInv, NEW c, Running(c), Child(c)
  PROVE  /\ \A g \in grants \ grants' :
              WorksFor(c, g[1]) /\ <<g[2], g[3]>> \notin UserOf(children[c].want, g[1]).grants
         /\ \A m \in members \ members' :
              WorksFor(c, m[1]) /\ m[2] \notin UserOf(children[c].want, m[1]).member_of
<1> DEFINE k == children[c]
           u == TheUser(c)
<1>1. Known(c, k)
  BY KnownOf
<1>2. CASE ListUser(c) \/ Record(c) \/ Read(c) \/ LookUp(c) \/ NextUser(c)
  BY <1>2 DEF ListUser, Record, Read, LookUp, NextUser, server
<1>3. CASE ChangeGrant(c)
  <2>1. k.step = "grants" /\ members' = members
    BY <1>3 DEF ChangeGrant
  <2>2. PICK call \in k.calls :
          grants' = IF call[1] = "grant" THEN grants \cup {<<u, call[2][1], call[2][2]>>}
                                         ELSE grants \ {<<u, call[2][1], call[2][2]>>}
    BY <1>3, ChangeGrantIs
  <2>3. k.items \in Seq(User) /\ k.items # <<>> /\ u = Head(k.items) /\ Rec(c) = UserOf(k.want, u)
    BY <1>1, <2>1, KnownUser DEF Known
  <2>4. WorksFor(c, u)
    BY <2>3, HeadAndTail DEF WorksFor
  <2>5. k.calls \subseteq ({"revoke"} \X ((Scope \X Role) \ Rec(c).grants)) \cup ({"grant"} \X Rec(c).grants)
    BY <1>1, <2>1, <2>3 DEF Known, ChildOK
  <2>6. ASSUME NEW g \in grants \ grants'
        PROVE  g[1] = u /\ <<g[2], g[3]>> \notin Rec(c).grants
    <3>1. call[1] # "grant" /\ g = <<u, call[2][1], call[2][2]>>
      BY <2>2
    <3>2. call[2] \in (Scope \X Role) \ Rec(c).grants
      BY <2>5, <3>1
    <3>3. call[2] = <<call[2][1], call[2][2]>> /\ g[1] = u /\ g[2] = call[2][1] /\ g[3] = call[2][2]
      BY <3>1, <3>2
    <3> QED BY <3>2, <3>3
  <2> QED BY <2>1, <2>3, <2>4, <2>6
<1>4. CASE ChangeMember(c)
  <2>1. k.step = "members" /\ grants' = grants
    BY <1>4 DEF ChangeMember
  <2>2. PICK call \in k.calls :
          members' = IF call[1] = "add" THEN members \cup {<<u, call[2]>>} ELSE members \ {<<u, call[2]>>}
    BY <1>4 DEF ChangeMember
  <2>3. k.items \in Seq(User) /\ k.items # <<>> /\ u = Head(k.items) /\ Rec(c) = UserOf(k.want, u)
    BY <1>1, <2>1, KnownUser DEF Known
  <2>4. WorksFor(c, u)
    BY <2>3, HeadAndTail DEF WorksFor
  <2>5. k.calls \subseteq ({"remove"} \X (Group \ Rec(c).member_of)) \cup ({"add"} \X Rec(c).member_of)
    BY <1>1, <2>1, <2>3 DEF Known, ChildOK
  <2>6. ASSUME NEW m \in members \ members'
        PROVE  m[1] = u /\ m[2] \notin Rec(c).member_of
    BY <2>2, <2>5
  <2> QED BY <2>1, <2>3, <2>4, <2>6
<1> QED BY <1>2, <1>3, <1>4 DEF Child

\* No role and no group is taken from a user in between that it is meant to
\* keep, in any sync, whatever fails and whoever else runs.
THEOREM NothingWantedIsTaken == Spec => WantedStays
<1> DEFINE Kept == /\ \A g \in grants \ grants' : \E c \in DOMAIN children :
                        WorksFor(c, g[1]) /\ <<g[2], g[3]>> \notin UserOf(children[c].want, g[1]).grants
                   /\ \A m \in members \ members' : \E c \in DOMAIN children :
                        WorksFor(c, m[1]) /\ m[2] \notin UserOf(children[c].want, m[1]).member_of
<1>1. ASSUME IInv, [Next]_vars PROVE Kept
  <2>1. CASE Children
    <3>1. PICK c \in DOMAIN children : Running(c) /\ Child(c)
      BY <2>1 DEF Children
    <3> QED BY <1>1, <3>1, TakesNoneWanted
  <2>2. CASE UNCHANGED <<grants, members>>
    BY <2>2
  <2>3. CASE UNCHANGED vars
    BY <2>2, <2>3 DEF vars, server
  <2>4. CASE Begin \/ MakeObject \/ NextPart \/ UnboundLocal \/ CreateRole
    BY <2>2, <2>4 DEF Begin, MakeObject, NextPart, UnboundLocal, CreateRole, server
  <2>5. CASE BeginFork \/ Fork \/ NextDomain \/ WaitPid \/ Return
    BY <2>2, <2>5 DEF BeginFork, Fork, NextDomain, WaitPid, Return, server
  <2>6. CASE Failing
    BY <2>2, <2>6 DEF Failing, Raise, ChildFails, server
  <2> QED BY <1>1, <2>1, <2>3, <2>4, <2>5, <2>6 DEF Next, Sync
<1>2. IInv /\ [Next]_vars => [Kept]_vars
  BY <1>1
<1> QED BY <1>2, Inductive, PTL DEF Spec, WantedStays

=============================================================================
