------------------------------ MODULE UserSync ------------------------------
(***************************************************************************)
(* user_dom_sync of slos/ossync.py: domains, projects, groups, roles and   *)
(* users of keystone are brought to what the components have registered.   *)
(*                                                                         *)
(* The sync makes the domains one after the other, each with its projects, *)
(* its groups and the roles of its users.  Then it forks a child for every *)
(* few users and lets Window of them run before it waits for the oldest.   *)
(* A child compares each of its users with what keystone lists of it and   *)
(* changes the difference, call by call.  Any call may fail.  A child that *)
(* fails unwinds into task_exec, in its own copy of the receiver, and ends *)
(* with status 0 as if it had done its work.  The sync itself may be       *)
(* killed with the receiver; its children live on.  A later deployment     *)
(* syncs again.                                                            *)
(*                                                                         *)
(* A name stands for its id: keystone has one object of a name, and the    *)
(* code compares names without regard to case as keystone does.            *)
(***************************************************************************)
EXTENDS Naturals, Sequences, FiniteSets, Functions, SequencesExt

CONSTANTS
  Domain, Project, Group, User, Role, Desc, Email,
  NoDesc,          \* the description ''
  None,
  Wants,           \* what may be registered: sequences of domains
  Servers,         \* what keystone may have before the first sync
  Batch, Window,   \* 4 and 32 in the code
  MaxSyncs,        \* bound: deployments
  MaxChildren,     \* what the children of all syncs come to at most
  MaxFails         \* bound: failing calls and kills

Object == Domain \cup Project \cup Group
\* what a role is granted on
Scope == Domain \cup Project

ASSUME WindowAssumption == Batch \in Nat \ {0} /\ Window \in Nat /\ NoDesc \in Desc

\* The domains, projects, groups and users are dictionaries.
Dict(f, S, T) == DOMAIN f \subseteq S /\ IsFiniteSet(DOMAIN f) /\ f \in [DOMAIN f -> T]
UserArgs == [email : Email, grants : SUBSET (Scope \X Role), member_of : SUBSET Group]
DomainArgs(d) ==
  /\ d.domain \in Domain /\ Dict(d.projects, Project, Desc) /\ Dict(d.groups, Group, Desc)
  /\ Dict(d.users, User, UserArgs)

\* The domain, the projects and the groups of a domain.
ObjectsIn(d) == {d.domain} \cup DOMAIN d.projects \cup DOMAIN d.groups

\* The default domain is always registered; a domain, project, group or user
\* is registered once.
ASSUME WantsAssumption ==
  \A w \in Wants :
    /\ w \in Seq(ToSet(w)) /\ w # <<>> /\ \A i \in DOMAIN w : DomainArgs(w[i])
    /\ \A i, j \in DOMAIN w : i # j =>
         /\ ObjectsIn(w[i]) \cap ObjectsIn(w[j]) = {}
         /\ DOMAIN w[i].users \cap DOMAIN w[j].users = {}

\* Keystone grants only to a user it has, and has only users in its groups.
ASSUME ServersAssumption ==
  \A s \in Servers :
    /\ s.roles \subseteq Role
    /\ \A g \in s.grants : g[1] \in DOMAIN s.users
    /\ \A m \in s.members : m[1] \in DOMAIN s.users

VARIABLES
  objects,    \* keystone: the description of each domain, project and group,
  users,      \* the email of each user,
  roles,
  grants,     \* <<user, scope, role>>
  members,    \* <<user, group>>
  phase,      \* of the sync
  want,       \* its argument user_domain
  at,         \* the domain it is at
  part,       \* what of that domain it makes
  todo,       \* what is left of that part
  role_to_id, \* the roles it knows
  jobs,       \* the users of the domain it has no child for
  processes,  \* its children, the oldest first
  children,   \* all children
  syncs, fails,
  lost        \* a child of this sync failed, or a child of another one ran

server == <<objects, users, roles, grants, members>>
bounds == <<syncs, fails>>
vars == <<server, phase, want, at, part, todo, role_to_id, jobs, processes, children, bounds, lost>>

Active == phase \in {"make", "fork", "wait"}
Running(c) == c \in DOMAIN children /\ children[c].step # "ended"
Registered(w) == UNION {DOMAIN w[i].users : i \in DOMAIN w}
UserOf(w, u) == LET i == CHOOSE j \in DOMAIN w : u \in DOMAIN w[j].users IN w[i].users[u]
ObjectsOf(w) == UNION {ObjectsIn(w[i]) : i \in DOMAIN w}

\* f with v at x
With(f, x, v) == [y \in DOMAIN f \cup {x} |-> IF y = x THEN v ELSE f[y]]

\* Sets S of users as sequences, in the order of the dict
InOrder(S) == CHOOSE s \in [1..Cardinality(S) -> S] : IsInjective(s)

-----------------------------------------------------------------------------
(* The part that is not forked. *)

Begin ==
  /\ ~Active /\ syncs < MaxSyncs
  /\ want' \in Wants
  /\ phase' = "make" /\ at' = 1 /\ part' = "domain" /\ todo' = {want'[1].domain}
  /\ role_to_id' = roles
  /\ jobs' = <<>> /\ processes' = <<>>
  /\ syncs' = syncs + 1
  /\ lost' = \E c \in DOMAIN children : Running(c)
  /\ UNCHANGED <<server, children, fails>>

\* get of an optional key of the domain; domains are asked for 'Description'
DescOf(d, o) ==
  IF o \in DOMAIN d.projects THEN d.projects[o] ELSE IF o \in DOMAIN d.groups THEN d.groups[o] ELSE NoDesc

\* list, then create or update
MakeObject ==
  /\ phase = "make" /\ part \in {"domain", "projects", "groups"}
  /\ \E o \in todo :
       /\ objects' = With(objects, o, DescOf(want[at], o))
       /\ todo' = todo \ {o}
  /\ UNCHANGED <<users, roles, grants, members, phase, want, at, part, role_to_id, jobs, processes, children, bounds, lost>>

\* Its local variables go with the call.
Leave(how) ==
  phase' = how /\ at' = 0 /\ part' = "domain" /\ todo' = {} /\ role_to_id' = {} /\ jobs' = <<>> /\ processes' = <<>>

\* mutant: the children find out
RolesOfNobody(d) == {}

\* The roles a domain's users have, wherever they have them
RolesOf(d) == {g[2] : g \in UNION {d.users[u].grants : u \in DOMAIN d.users}}

\* The group part reads the loop variable of the project part.
GroupsCanStart ==
  part = "projects" /\ DOMAIN want[at].groups # {} => \E i \in 1..at : DOMAIN want[i].projects # {}

UnboundLocal ==
  /\ phase = "make" /\ todo = {} /\ ~GroupsCanStart
  /\ Leave("raised")
  /\ UNCHANGED <<server, want, children, bounds, lost>>

NextPart ==
  /\ phase = "make" /\ todo = {} /\ GroupsCanStart
  /\ LET d == want[at] IN
       \/ /\ part = "domain"
          /\ part' = "projects" /\ todo' = DOMAIN d.projects /\ UNCHANGED at
       \/ /\ part = "projects"
          /\ part' = "groups" /\ todo' = DOMAIN d.groups /\ UNCHANGED at
       \/ /\ part = "groups"
          /\ part' = "roles" /\ todo' = RolesOf(d) \ role_to_id /\ UNCHANGED at
       \/ /\ part = "roles" /\ at < Len(want)
          /\ part' = "domain" /\ at' = at + 1 /\ todo' = {want[at + 1].domain}
  /\ UNCHANGED <<server, phase, want, role_to_id, jobs, processes, children, bounds, lost>>

\* get_role_id of what it does not know; keystone refuses a role it has
CreateRole ==
  /\ phase = "make" /\ part = "roles"
  /\ \E r \in todo :
       /\ r \notin roles
       /\ roles' = roles \cup {r}
       /\ role_to_id' = role_to_id \cup {r}
       /\ todo' = todo \ {r}
  /\ UNCHANGED <<objects, users, grants, members, phase, want, at, part, jobs, processes, children, bounds, lost>>

\* a call of the sync fails, or it is killed with the receiver
Raise ==
  /\ Active /\ fails < MaxFails
  /\ fails' = fails + 1
  /\ Leave("raised")
  /\ UNCHANGED <<server, want, children, syncs, lost>>

-----------------------------------------------------------------------------
(* Forking. *)

BeginFork ==
  /\ phase = "make" /\ part = "roles" /\ todo = {} /\ at = Len(want)
  /\ phase' = "fork" /\ at' = 1 /\ jobs' = InOrder(DOMAIN want[1].users)
  /\ UNCHANGED <<server, want, part, todo, role_to_id, processes, children, bounds, lost>>

NewChild(items) ==
  [items |-> items, want |-> want, knows |-> role_to_id, step |-> "list", new |-> FALSE, had |-> {}, calls |-> {}, scope |-> None]

\* a child for the last users of what is left
Fork ==
  /\ phase = "fork" /\ jobs # <<>> /\ Len(processes) <= Window
  /\ LET s == IF Len(jobs) < Batch THEN 0 ELSE Len(jobs) - Batch
         c == Len(children) + 1 IN
       /\ children' = Append(children, NewChild(SubSeq(jobs, s + 1, Len(jobs))))
       /\ processes' = Append(processes, c)
       /\ jobs' = SubSeq(jobs, 1, s)
  /\ UNCHANGED <<server, phase, want, at, part, todo, role_to_id, bounds, lost>>

NextDomain ==
  /\ phase = "fork" /\ jobs = <<>> /\ Len(processes) <= Window
  /\ IF at < Len(want) THEN at' = at + 1 /\ jobs' = InOrder(DOMAIN want[at + 1].users) /\ UNCHANGED phase
                       ELSE phase' = "wait" /\ UNCHANGED <<at, jobs>>
  /\ UNCHANGED <<server, want, part, todo, role_to_id, processes, children, bounds, lost>>

\* mutant: the oldest stays in the list
WaitPidKeep ==
  /\ \/ phase = "fork" /\ Len(processes) > Window
     \/ phase = "wait" /\ processes # <<>>
  /\ children[Head(processes)].step = "ended"
  /\ UNCHANGED <<server, phase, want, at, part, todo, role_to_id, jobs, processes, children, bounds, lost>>

\* waitpid of the oldest, in the loop when there are too many or at the end
WaitPid ==
  /\ \/ phase = "fork" /\ Len(processes) > Window
     \/ phase = "wait" /\ processes # <<>>
  /\ children[Head(processes)].step = "ended"
  /\ processes' = Tail(processes)
  /\ UNCHANGED <<server, phase, want, at, part, todo, role_to_id, jobs, children, bounds, lost>>

\* mutant: only those beyond the window are waited for
ReturnUnwaited ==
  /\ phase = "wait"
  /\ Leave("returned")
  /\ UNCHANGED <<server, want, children, bounds, lost>>

Return ==
  /\ phase = "wait" /\ processes = <<>>
  /\ Leave("returned")
  /\ UNCHANGED <<server, want, children, bounds, lost>>

-----------------------------------------------------------------------------
(* A child.  Its user is the first of its items; calls is what it has yet  *)
(* to change of that user, from the difference it has seen.                *)

TheUser(c) == Head(children[c].items)
Rec(c) == UserOf(children[c].want, TheUser(c))
Move(c, step) == children' = [children EXCEPT ![c].step = step]
Exits(c) ==
  children' = [children EXCEPT ![c] =
    [items |-> <<>>, want |-> <<>>, knows |-> {}, step |-> "ended", new |-> FALSE, had |-> {}, calls |-> {}, scope |-> None]]
\* The child ends with what it raises; its parent does not learn of it.
Dies(c) == Exits(c) /\ lost' = (lost \/ c \in ToSet(processes))
OfTheSync == <<phase, want, at, part, todo, role_to_id, jobs, processes, syncs>>

\* users.list, or os._exit(0)
ListUser(c) ==
  /\ children[c].step = "list"
  /\ IF children[c].items = <<>>
       THEN Exits(c)
       ELSE children' = [children EXCEPT ![c].step = "record", ![c].new = TheUser(c) \notin DOMAIN users]
  /\ UNCHANGED <<server, OfTheSync, fails, lost>>

\* users.create, refused when there is such a user by now; users.update when
\* the record differs
Record(c) ==
  /\ children[c].step = "record"
  /\ IF children[c].new /\ TheUser(c) \in DOMAIN users
       THEN Dies(c) /\ UNCHANGED users
       ELSE users' = With(users, TheUser(c), Rec(c).email) /\ Move(c, "read") /\ UNCHANGED lost
  /\ UNCHANGED <<objects, roles, grants, members, OfTheSync, fails>>

\* mutant: all is taken away and given again
DifferenceAfresh(away, give, existing, target) == ({away} \X existing) \cup ({give} \X target)

\* The calls that make of what there is what is to be.
Difference(away, give, existing, target) == ({away} \X (existing \ target)) \cup ({give} \X (target \ existing))

\* The assignments and groups of the user, none for a new one.  The ids of the
\* groups it is to be in are looked up: a KeyError for one no domain has.
Read(c) ==
  /\ children[c].step = "read"
  /\ LET u == TheUser(c)
         old == ~children[c].new
         had == {g \in Scope \X Role : old /\ <<u, g[1], g[2]>> \in grants}
         member_of == {g \in Group : old /\ <<u, g>> \in members}
         target == Rec(c).member_of IN
       IF target \subseteq ObjectsOf(children[c].want)
         THEN /\ children' = [children EXCEPT
                   ![c].step = "members", ![c].had = had,
                   ![c].calls = Difference("remove", "add", member_of, target)]
              /\ UNCHANGED lost
         ELSE Dies(c)
  /\ UNCHANGED <<server, OfTheSync, fails>>

\* remove_from_group, then add_to_group
ChangeMember(c) ==
  /\ children[c].step = "members"
  /\ \E call \in children[c].calls :
       /\ call[1] = "add" => \A other \in children[c].calls : other[1] = "add"
       /\ members' = IF call[1] = "add" THEN members \cup {<<TheUser(c), call[2]>>}
                                        ELSE members \ {<<TheUser(c), call[2]>>}
       /\ children' = [children EXCEPT ![c].calls = @ \ {call}]
  /\ UNCHANGED <<objects, users, roles, grants, OfTheSync, fails, lost>>

\* get_role_id of each role, and the ids of the domains and projects
LookUp(c) ==
  /\ children[c].step = "members" /\ children[c].calls = {}
  /\ LET target == Rec(c).grants
         unknown == {g[2] : g \in target} \ children[c].knows IN
       IF unknown \cap roles = {} /\ {g[1] : g \in target} \subseteq ObjectsOf(children[c].want)
         THEN /\ roles' = roles \cup unknown
              /\ children' = [children EXCEPT
                   ![c].step = "grants", ![c].knows = @ \cup unknown,
                   ![c].calls = Difference("revoke", "grant", children[c].had, target)]
              /\ UNCHANGED lost
         ELSE Dies(c) /\ UNCHANGED roles
  /\ UNCHANGED <<objects, users, grants, members, OfTheSync, fails>>

\* The projects come first, then the domains, one after the other; what is
\* taken away there before what is given.
Turn(c, call) ==
  LET on == call[2][1]
      Elsewhere(other) == other[2][1] # on IN
    /\ children[c].scope \in {None, on}
    /\ \A other \in children[c].calls :
         /\ on \in Domain => other[2][1] \in Domain
         /\ call[1] = "grant" => other[1] = "grant" \/ Elsewhere(other)

\* roles.revoke and roles.grant
ChangeGrant(c) ==
  /\ children[c].step = "grants"
  /\ \E call \in children[c].calls :
       /\ Turn(c, call)
       /\ LET g == <<TheUser(c), call[2][1], call[2][2]>>
              left == children[c].calls \ {call} IN
            /\ grants' = IF call[1] = "grant" THEN grants \cup {g} ELSE grants \ {g}
            /\ children' = [children EXCEPT
                 ![c].calls = left,
                 ![c].scope = IF \E other \in left : other[2][1] = call[2][1] THEN call[2][1] ELSE None]
  /\ UNCHANGED <<objects, users, roles, members, OfTheSync, fails, lost>>

NextUser(c) ==
  /\ children[c].step = "grants" /\ children[c].calls = {}
  /\ children' = [children EXCEPT ![c].items = Tail(@), ![c].step = "list", ![c].had = {}, ![c].new = FALSE]
  /\ UNCHANGED <<server, OfTheSync, fails, lost>>

ChildFails(c) ==
  /\ Running(c) /\ fails < MaxFails
  /\ fails' = fails + 1
  /\ Dies(c)
  /\ UNCHANGED <<server, OfTheSync>>

Child(c) == ListUser(c) \/ Record(c) \/ Read(c) \/ ChangeMember(c) \/ LookUp(c) \/ ChangeGrant(c) \/ NextUser(c)

-----------------------------------------------------------------------------
Init ==
  /\ \E s \in Servers :
       objects = s.objects /\ users = s.users /\ roles = s.roles /\ grants = s.grants /\ members = s.members
  /\ phase = "idle" /\ want = <<>> /\ at = 0 /\ part = "domain" /\ todo = {}
  /\ role_to_id = {} /\ jobs = <<>> /\ processes = <<>> /\ children = <<>>
  /\ syncs = 0 /\ fails = 0 /\ lost = FALSE

Sync == MakeObject \/ NextPart \/ UnboundLocal \/ CreateRole \/ BeginFork \/ Fork \/ NextDomain \/ WaitPid \/ Return
Children == \E c \in DOMAIN children : Running(c) /\ Child(c)
Failing == Raise \/ \E c \in DOMAIN children : ChildFails(c)

Next == Begin \/ Sync \/ Children \/ Failing

\* The processes run; nothing makes an operator deploy or a call fail.
Fairness == WF_vars(Sync) /\ \A c \in 1..MaxChildren : WF_vars(Running(c) /\ Child(c))
Spec == Init /\ [][Next]_vars /\ Fairness

-----------------------------------------------------------------------------
(* Properties *)

GrantsOf(u) == {g \in Scope \X Role : <<u, g[1], g[2]>> \in grants}
WorksFor(c, u) == Running(c) /\ u \in ToSet(children[c].items)
GroupsOf(u) == {g \in Group : <<u, g>> \in members}

\* A sync that returns has done all it was asked for, when none of its children
\* failed and no child of an earlier sync was there: every domain, project and
\* group has its description, every user its record, and exactly the roles and
\* groups it is registered with.
SyncReaches ==
  phase = "returned" /\ ~lost =>
    \A i \in DOMAIN want :
      /\ \A o \in ObjectsIn(want[i]) :
           o \in DOMAIN objects /\ objects[o] = DescOf(want[i], o)
      /\ \A u \in DOMAIN want[i].users :
           /\ u \in DOMAIN users /\ users[u] = want[i].users[u].email
           /\ GrantsOf(u) = want[i].users[u].grants
           /\ GroupsOf(u) = want[i].users[u].member_of

\* A service keeps the access it is meant to keep through a sync that changes
\* it: a role or a group is taken away only by a child that does not want it.
WantedStays ==
  [][/\ \A g \in grants \ grants' : \E c \in DOMAIN children :
          WorksFor(c, g[1]) /\ <<g[2], g[3]>> \notin UserOf(children[c].want, g[1]).grants
     /\ \A m \in members \ members' : \E c \in DOMAIN children :
          WorksFor(c, m[1]) /\ m[2] \notin UserOf(children[c].want, m[1]).member_of]_vars

\* "ensure we have all rule id before switching to parallel": a role is made by
\* the sync before it forks, never by its children, who would make it twice.
RolesBeforeChildren == [][roles' # roles => phase = "make"]_vars

\* A sync ends, whatever fails, and at last there is no child left.
SyncEnds ==
  /\ Active ~> ~Active
  /\ (\E c \in DOMAIN children : Running(c)) ~> (\A c \in DOMAIN children : ~Running(c))
=============================================================================
